---- MODULE Spec2Model ----
(***************************************************************************)
(* Campaign and task scheduling core of the userbot (src/userbot.py):      *)
(* the admin_only gate, generate_campaign_id, the payload / destination /  *)
(* admin registries, the asyncio task registries and the jobs they hold.   *)
(*                                                                         *)
(* One action is one stretch of a handler or coroutine that runs without   *)
(* an await that lets another handler in: Telethon runs every handler as   *)
(* its own asyncio task on one event loop, so such stretches interleave    *)
(* but never overlap.  asyncio.CancelledError is a BaseException (Python   *)
(* 3.8 and later), so "except Exception" does not catch it.                *)
(***************************************************************************)
EXTENDS Integers, Sequences, FiniteSets, TLC

(***************************************************************************)
(* Bounds of the model.                                                    *)
(***************************************************************************)
\* asyncio tasks that exist at once (running, or finished and still referenced)
MaxTasks == 2
\* payloads stored or being saved at once
MaxStored == 1
\* outcomes recorded in the analytics ledger
MaxOutcomes == 1
\* how many of the 36 characters the random fallback of generate_campaign_id draws from
FallbackAlphabet == 2
\* /restore confirmations waiting at once
MaxWaiters == 1
\* AllocSpec: /setad calls in a run
MaxSaves == 2
\* PassSpec: outcomes in the ledger
PassOutcomes == 4
\* LedgerSpec: outcomes in the ledger
LedgerOutcomes == 3
\* ScheduleSpec: the clock, in seconds
MaxClock == 180
\* GateSpec: the tasks that exist when a campaign command arrives
GateTasks == 1

(***************************************************************************)
(* Program constants.                                                      *)
(***************************************************************************)
\* self.forward_interval = 300
DefaultInterval == 300
\* "if interval < 60"
MinInterval == 60
\* def generate_campaign_id(length=1)
DefaultLength == 1

(***************************************************************************)
(* Inputs.                                                                 *)
(***************************************************************************)
\* principals that send messages; config.ADMIN_IDS are the configured admins
Users == {1, 2}
ADMIN_IDS == {1}
\* the <interval> argument: absent, not an integer, or an integer
IntervalArgs ==
    { [given |-> FALSE, valid |-> TRUE, value |-> 0],
      [given |-> TRUE, valid |-> FALSE, value |-> 0],
      [given |-> TRUE, valid |-> TRUE, value |-> 30],
      [given |-> TRUE, valid |-> TRUE, value |-> 60] }
\* the user argument of /addadmin and /removeadmin: a numeric id, or a
\* username that client.get_entity cannot resolve
UserArgs == [id : Users, resolves : BOOLEAN]
\* the backup document a /restore replies to
Backups ==
    [target_chats : {{}, {100}}, forward_interval : {30, 300},
     admins : SUBSET Users, campaigns : {{}, {"1"}}]

VARIABLES
    forwarding_enabled,  \* self.forwarding_enabled
    admins,              \* self.admins
    target_chats,        \* self.target_chats
    forward_interval,    \* self.forward_interval
    stored_messages,     \* self.stored_messages: id -> message
    forwarding_tasks,    \* self._forwarding_tasks: key -> task handle
    scheduled_tasks,     \* self.scheduled_tasks: key -> task handle
    targeted_campaigns,  \* self.targeted_campaigns: id -> campaign record
    analytics,           \* self.analytics: forwards and failures per day
    tasks,               \* the asyncio tasks: handle -> coroutine state
    pending_saves,       \* cmd_setad calls suspended in get_reply_message
    restore_waiters,     \* wait_for_confirmation tasks of cmd_restore
    clear_waiters,       \* wait_for_confirmation tasks of cmd_removealltarget
    restoring,           \* confirmed restores suspended in cmd_stop's reply
    optimizing,          \* cmd_optimize calls suspended in an await
    now,                 \* datetime.now(), in seconds since the Epoch below
    reply                \* what the step just taken replied ("none": nothing)

vars == <<forwarding_enabled, admins, target_chats, forward_interval,
          stored_messages, forwarding_tasks, scheduled_tasks,
          targeted_campaigns, analytics, tasks, pending_saves,
          restore_waiters, clear_waiters, restoring, optimizing, now, reply>>

\* the state a handler works on: everything but the reply it sends
stateVars == <<forwarding_enabled, admins, target_chats, forward_interval,
               stored_messages, forwarding_tasks, scheduled_tasks,
               targeted_campaigns, analytics, tasks, pending_saves,
               restore_waiters, clear_waiters, restoring, optimizing, now>>

(***************************************************************************)
(* Helpers on functions (Python dicts).                                    *)
(***************************************************************************)
EmptyDict == [k \in {} |-> 0]

Put(d, k, v) == [x \in DOMAIN d \cup {k} |-> IF x = k THEN v ELSE d[x]]

Del(d, k) == [x \in DOMAIN d \ {k} |-> d[x]]

Range(d) == {d[k] : k \in DOMAIN d}

SeqRemove(s, i) == [j \in 1..(Len(s) - 1) |-> IF j < i THEN s[j] ELSE s[j + 1]]

(***************************************************************************)
(* admin_only: the decorator around every command handler.                 *)
(***************************************************************************)
\* "drop": silently ignored; "offline": the offline notice is replied;
\* "run": the handler body runs.  is_start is
\* command_function_name == "cmd_start" or command_name == "/start".
\* admin_only without the check of the sender
admin_only_open(sender, is_start) ==
    IF is_start /\ ~forwarding_enabled THEN "run"
    ELSE IF ~forwarding_enabled THEN "offline"
    ELSE "run"

\* admin_only with the /start bypass tested before the sender
admin_only_start_first(sender, is_start) ==
    IF is_start /\ ~forwarding_enabled THEN "run"
    ELSE IF sender \notin admins THEN "drop"
    ELSE IF ~forwarding_enabled THEN "offline"
    ELSE "run"

\* admin_only without the check of forwarding_enabled
admin_only_ungated(sender, is_start) ==
    IF sender \notin admins THEN "drop" ELSE "run"

admin_only(sender, is_start) ==
    IF sender \notin admins THEN "drop"
    ELSE IF is_start /\ ~forwarding_enabled THEN "run"
    ELSE IF ~forwarding_enabled THEN "offline"
    ELSE "run"

\* the wrapper returns without calling the handler
Denied(sender, is_start) ==
    /\ admin_only(sender, is_start) # "run"
    /\ reply' = (IF admin_only(sender, is_start) = "offline" THEN "offline" ELSE "none")
    /\ UNCHANGED stateVars

(***************************************************************************)
(* generate_campaign_id                                                    *)
(***************************************************************************)
\* str(i) for i in range(1, 10)
Digits == <<"1", "2", "3", "4", "5", "6", "7", "8", "9">>

\* string.ascii_uppercase
Uppercase ==
    <<"A", "B", "C", "D", "E", "F", "G", "H", "I", "J", "K", "L", "M",
      "N", "O", "P", "Q", "R", "S", "T", "U", "V", "W", "X", "Y", "Z">>

\* chars = string.ascii_uppercase + string.digits
Chars == Uppercase \o <<"0", "1", "2", "3", "4", "5", "6", "7", "8", "9">>

\* the characters random.choice(chars) is let to return
DrawnChars == {Chars[i] : i \in 1..FallbackAlphabet}

\* ''.join(random.choice(chars) for _ in range(n)): every string it can give
RECURSIVE RandomStrings(_)
RandomStrings(n) ==
    IF n = 0 THEN {""}
    ELSE {c \o s : c \in DrawnChars, s \in RandomStrings(n - 1)}

\* the index of the last candidate of seq that is not in existing_ids, 0 if none
LastFree(seq, existing_ids) ==
    LET free == {i \in 1..Len(seq) : seq[i] \notin existing_ids}
    IN  IF free = {} THEN 0 ELSE CHOOSE i \in free : \A j \in free : i >= j

\* the index of the first candidate of seq that is not in existing_ids, 0 if none
FirstFree(seq, existing_ids) ==
    LET free == {i \in 1..Len(seq) : seq[i] \notin existing_ids}
    IN  IF free = {} THEN 0 ELSE CHOOSE i \in free : \A j \in free : i <= j

\* The identifiers a call can return.  The set is empty when the "while True"
\* loop can never leave: every string of length + 1 is in existing_ids.
generate_campaign_id(length) ==
    LET existing_ids == DOMAIN stored_messages
        d == FirstFree(Digits, existing_ids)
        u == FirstFree(Uppercase, existing_ids)
    IN  IF d # 0 THEN {Digits[d]}
        ELSE IF u # 0 THEN {Uppercase[u]}
        ELSE {s \in RandomStrings(length + 1) : s \notin existing_ids}

(***************************************************************************)
(* asyncio tasks                                                           *)
(***************************************************************************)
\* A task: the coroutine it runs, the arguments it was created with, the
\* locals of the coroutine and where it is suspended.
\*   key       the registry key the task was stored under when created
\*   live      the target set is the object self.target_chats itself
\*   targets   the target set otherwise (a set object of its own)
\*   pc        "created" | "forwarding" | "sleeping" | "waiting" | "done"
\*   cur, todo the target being forwarded to and those the iterator has left
\*   iter_len  the size of the set when the iteration began
\*   cancelled task.cancel() was called
NoMessage == "none"

NewTask(key, coro, msg_id, live, targets, interval) ==
    [key |-> key, coro |-> coro, msg_id |-> msg_id, message |-> NoMessage, live |-> live,
     targets |-> targets, interval |-> interval, schedule_time |-> 0, pc |-> "created",
     cur |-> 0, todo |-> {}, iter_len |-> 0, cancelled |-> FALSE]

\* a finished task keeps nothing but the fact that it is done
Finished(t) ==
    [key |-> t.key, coro |-> t.coro, msg_id |-> t.msg_id, message |-> NoMessage, live |-> FALSE,
     targets |-> {}, interval |-> t.interval, schedule_time |-> 0, pc |-> "done",
     cur |-> 0, todo |-> {}, iter_len |-> 0, cancelled |-> t.cancelled]

\* task.done()
Done(ts, h) == ts[h].pc = "done"

\* a job that still runs: not finished and not asked to stop
Live(ts, h) == ts[h].pc # "done" /\ ~ts[h].cancelled

\* task.cancel() on a task that is not done
Cancel(ts, hs) ==
    [h \in DOMAIN ts |-> IF h \in hs /\ ts[h].pc # "done"
                         THEN [ts[h] EXCEPT !.cancelled = TRUE] ELSE ts[h]]

\* a finished task that no registry refers to is garbage
Collect(ts, ft, st) ==
    [h \in {x \in DOMAIN ts : ts[x].pc # "done" \/ x \in Range(ft) \cup Range(st)} |-> ts[h]]

\* the handle asyncio.create_task returns
FreeHandles == (1..MaxTasks) \ DOMAIN tasks

NewHandle == CHOOSE h \in FreeHandles : \A g \in FreeHandles : h <= g

\* f"targeted_{campaign_id}" and f"sched_{...}"
TargetedKey(campaign_id) == "targeted_" \o campaign_id

ScheduleKey(id) == "sched_" \o id

(***************************************************************************)
(* The analytics ledger                                                    *)
(***************************************************************************)
\* The calendar of datetime: a date is a year, a month and a day.
IsLeap(y) == (y % 4 = 0 /\ y % 100 # 0) \/ y % 400 = 0

DaysInMonth(y, m) ==
    IF m = 2 THEN (IF IsLeap(y) THEN 29 ELSE 28)
    ELSE IF m \in {4, 6, 9, 11} THEN 30 ELSE 31

\* the first day of the month after d's, the last day of the month before
NextMonth(d) ==
    IF d.month < 12 THEN [year |-> d.year, month |-> d.month + 1, day |-> 1]
    ELSE [year |-> d.year + 1, month |-> 1, day |-> 1]

PrevMonth(d) ==
    IF d.month > 1
    THEN [year |-> d.year, month |-> d.month - 1,
          day |-> DaysInMonth(d.year, d.month - 1)]
    ELSE [year |-> d.year - 1, month |-> 12, day |-> 31]

\* date + timedelta(days=n), a month at a time
RECURSIVE AddDays(_, _)
AddDays(d, n) ==
    IF 1 <= d.day + n /\ d.day + n <= DaysInMonth(d.year, d.month)
    THEN [d EXCEPT !.day = @ + n]
    ELSE IF n > 0
    THEN AddDays(NextMonth(d), n - (DaysInMonth(d.year, d.month) - d.day + 1))
    ELSE AddDays(PrevMonth(d), n + d.day)

\* the date at which now is 0
Epoch == [year |-> 2028, month |-> 1, day |-> 1]

\* datetime.now(), as a date
NowDate == AddDays(Epoch, now \div 86400)

\* A string is the sequence of its characters.
DecimalDigits == <<"0", "1", "2", "3", "4", "5", "6", "7", "8", "9">>

\* ord(c) of the characters of a date string
ord(c) == IF c = "-" THEN 45 ELSE 47 + (CHOOSE i \in 1..10 : DecimalDigits[i] = c)

\* the digit of n at the place of 10^k
Digit(n, k) == DecimalDigits[((n \div (10 ^ k)) % 10) + 1]

\* d.strftime('%Y-%m-%d'): the year in four digits, the month and the day in
\* two, padded with zeros
strftime(d) ==
    <<Digit(d.year, 3), Digit(d.year, 2), Digit(d.year, 1), Digit(d.year, 0), "-",
      Digit(d.month, 1), Digit(d.month, 0), "-", Digit(d.day, 1), Digit(d.day, 0)>>

\* a < b on Python strings: the order of the first characters that differ,
\* a proper prefix before the longer string
RECURSIVE StrLess(_, _)
StrLess(a, b) ==
    IF b = <<>> THEN FALSE
    ELSE IF a = <<>> THEN TRUE
    ELSE IF Head(a) # Head(b) THEN ord(Head(a)) < ord(Head(b))
    ELSE StrLess(Tail(a), Tail(b))

\* datetime.now().strftime('%Y-%m-%d')
Today == strftime(NowDate)

\* f"{msg_id}_{target}"
CampaignKey(msg_id, target) == msg_id \o "_" \o ToString(target)

\* the number of outcomes in the ledger
Sum(f) ==
    LET RECURSIVE S(_)
        S(D) == IF D = {} THEN 0
                ELSE LET k == CHOOSE x \in D : TRUE IN f[k] + S(D \ {k})
    IN  S(DOMAIN f)

Outcomes(a) ==
    Sum([d \in DOMAIN a.forwards |-> Sum(a.forwards[d])])
    + Sum([d \in DOMAIN a.failures |->
             Sum([k \in DOMAIN a.failures[d] |-> Len(a.failures[d][k])])])

\* a success branch that writes back a counter read before another writer's
\* update: the update of the other writer is lost
RecordStale(a, msg_id, target) ==
    LET day == IF Today \in DOMAIN a.forwards THEN a.forwards[Today] ELSE EmptyDict
    IN  [a EXCEPT !.forwards = Put(a.forwards, Today, Put(day, CampaignKey(msg_id, target), 1))]

\* the success branch of a delivery (lines 176-184)
RecordSuccess(a, msg_id, target) ==
    LET day == IF Today \in DOMAIN a.forwards THEN a.forwards[Today] ELSE EmptyDict
        key == CampaignKey(msg_id, target)
        n   == IF key \in DOMAIN day THEN day[key] ELSE 0
    IN  [a EXCEPT !.forwards = Put(a.forwards, Today, Put(day, key, n + 1))]

\* a failure branch that records nothing
RecordNothing(a, msg_id, target, reason) == a

\* the failure branch of a delivery (lines 189-197)
RecordFailure(a, msg_id, target, reason) ==
    LET day == IF Today \in DOMAIN a.failures THEN a.failures[Today] ELSE EmptyDict
        key == CampaignKey(msg_id, target)
        l   == IF key \in DOMAIN day THEN day[key] ELSE <<>>
    IN  [a EXCEPT !.failures = Put(a.failures, Today, Put(day, key, Append(l, reason)))]

(***************************************************************************)
(* MessageForwarder.__init__                                               *)
(***************************************************************************)
Init ==
    /\ forwarding_enabled = FALSE
    /\ admins = ADMIN_IDS
    /\ target_chats = {}
    /\ forward_interval = DefaultInterval
    /\ stored_messages = EmptyDict
    /\ forwarding_tasks = EmptyDict
    /\ scheduled_tasks = EmptyDict
    /\ targeted_campaigns = EmptyDict
    /\ analytics = [forwards |-> EmptyDict, failures |-> EmptyDict]
    /\ tasks = EmptyDict
    /\ pending_saves = <<>>
    /\ restore_waiters = {}
    /\ clear_waiters = {}
    /\ restoring = {}
    /\ optimizing = {}
    /\ now = 0
    /\ reply = "none"

(***************************************************************************)
(* Command handlers.  Each is the wrapper of admin_only followed by the    *)
(* handler body; sender is the id of the user who sent the message.        *)
(***************************************************************************)
\* an early return of a handler: it replies and changes nothing
Refuse(r) == reply' = r /\ UNCHANGED stateVars

\* the three task structures after a handler changed them
SetTasks(ts, ft, st) ==
    /\ tasks' = Collect(ts, ft, st)
    /\ forwarding_tasks' = ft
    /\ scheduled_tasks' = st

\* an <id> argument that is not there
Missing == ""

\* the handles a registry holds whose task is not done
NotDone(reg) == {reg[k] : k \in {x \in DOMAIN reg : ~Done(tasks, reg[x])}}

\* int(command_parts[n]) with its checks: "invalid", "small" or "ok"
IntervalCheck(arg) ==
    IF ~arg.given THEN "ok"
    ELSE IF ~arg.valid THEN "invalid"
    ELSE IF arg.value < MinInterval THEN "small"
    ELSE "ok"

IntervalOf(arg) == IF arg.given THEN arg.value ELSE forward_interval

\* client.get_me() is awaited (line 305) only until its first return, which
\* is followed at once by line 311: until then the flag has never been set,
\* every other command is refused, and a suspended /start changes nothing.
cmd_start(sender) ==
    \/ Denied(sender, TRUE)
    \/ /\ admin_only(sender, TRUE) = "run"
       /\ forwarding_enabled' = TRUE
       /\ reply' = "welcome"
       /\ UNCHANGED <<admins, target_chats, forward_interval, stored_messages,
                      forwarding_tasks, scheduled_tasks, targeted_campaigns,
                      analytics, tasks, pending_saves, restore_waiters, clear_waiters, restoring, optimizing, now>>

\* a stop that forgets the scheduled tasks
StopForwardingOnly ==
    /\ SetTasks(Cancel(tasks, NotDone(forwarding_tasks)), EmptyDict, EmptyDict)
    /\ targeted_campaigns' = EmptyDict
    /\ forwarding_enabled' = FALSE

\* the body of cmd_stop up to its reply (lines 354-370)
StopAll ==
    /\ SetTasks(Cancel(tasks, NotDone(forwarding_tasks) \cup NotDone(scheduled_tasks)),
                EmptyDict, EmptyDict)
    /\ targeted_campaigns' = EmptyDict
    /\ forwarding_enabled' = FALSE

cmd_stop(sender) ==
    \/ Denied(sender, FALSE)
    \/ /\ admin_only(sender, FALSE) = "run"
       /\ StopAll
       /\ reply' = "shutdown"
       /\ UNCHANGED <<admins, target_chats, forward_interval, stored_messages,
                      analytics, pending_saves, restore_waiters, clear_waiters, restoring, optimizing, now>>

\* /status, and like it /listad, /listtargetad, /listtarget, /listadmins:
\* they read the state and reply
cmd_status(sender) ==
    \/ Denied(sender, FALSE)
    \/ /\ admin_only(sender, FALSE) = "run"
       /\ Refuse("info")

\* /help replies the list of commands
cmd_help(sender) ==
    \/ Denied(sender, FALSE)
    \/ /\ admin_only(sender, FALSE) = "run"
       /\ Refuse("help")

\* cmd_setad up to "await event.get_reply_message()"
cmd_setad(sender, is_reply, message) ==
    \/ Denied(sender, FALSE)
    \/ /\ admin_only(sender, FALSE) = "run"
       /\ IF ~is_reply THEN Refuse("reply_to_a_message")
          ELSE \E msg_id \in generate_campaign_id(DefaultLength) :
                 /\ pending_saves' = Append(pending_saves,
                                            [msg_id |-> msg_id, message |-> message])
                 /\ reply' = "none"
                 /\ UNCHANGED <<forwarding_enabled, admins, target_chats,
                                forward_interval, stored_messages, forwarding_tasks,
                                scheduled_tasks, targeted_campaigns, analytics,
                                tasks, restore_waiters, clear_waiters, restoring, optimizing, now>>

\* cmd_setad from the return of get_reply_message on (line 700), or its failure
setad_store(i, ok) ==
    /\ i \in 1..Len(pending_saves)
    /\ pending_saves' = SeqRemove(pending_saves, i)
    /\ IF ok
       THEN /\ stored_messages' = Put(stored_messages, pending_saves[i].msg_id,
                                      pending_saves[i].message)
            /\ reply' = "saved"
       ELSE /\ UNCHANGED stored_messages
            /\ reply' = "error"
    /\ UNCHANGED <<forwarding_enabled, admins, target_chats, forward_interval,
                   forwarding_tasks, scheduled_tasks, targeted_campaigns,
                   analytics, tasks, restore_waiters, clear_waiters, restoring, optimizing, now>>

cmd_removead(sender, msg_id) ==
    \/ Denied(sender, FALSE)
    \/ /\ admin_only(sender, FALSE) = "run"
       /\ IF msg_id \notin DOMAIN stored_messages THEN Refuse("not_found")
          ELSE /\ IF msg_id \in DOMAIN forwarding_tasks
                     /\ ~Done(tasks, forwarding_tasks[msg_id])
                  THEN SetTasks(Cancel(tasks, {forwarding_tasks[msg_id]}),
                                Del(forwarding_tasks, msg_id), scheduled_tasks)
                  ELSE UNCHANGED <<tasks, forwarding_tasks, scheduled_tasks>>
               /\ stored_messages' = Del(stored_messages, msg_id)
               /\ reply' = "removed"
               /\ UNCHANGED <<forwarding_enabled, admins, target_chats,
                              forward_interval, targeted_campaigns, analytics,
                              pending_saves, restore_waiters, clear_waiters, restoring, optimizing, now>>

\* /startad that cancels nothing
NoExistingTask(msg_id) == {}

\* "Cancel existing task if any" (lines 800-802): the task to cancel
ExistingTask(msg_id) ==
    IF msg_id \in DOMAIN forwarding_tasks /\ ~Done(tasks, forwarding_tasks[msg_id])
    THEN {forwarding_tasks[msg_id]} ELSE {}

\* a /startad that cancels the task under the key before it checks its
\* arguments: a refused command has stopped the running job
startad_cancel_first(sender, msg_id, interval) ==
    \/ Denied(sender, FALSE)
    \/ /\ admin_only(sender, FALSE) = "run"
       /\ IF IntervalCheck(interval) # "ok" \/ msg_id \notin DOMAIN stored_messages
             \/ target_chats = {}
          THEN /\ SetTasks(Cancel(tasks, ExistingTask(msg_id)),
                           Del(forwarding_tasks, msg_id), scheduled_tasks)
               /\ reply' = (IF IntervalCheck(interval) = "small" THEN "interval_too_small"
                            ELSE IF IntervalCheck(interval) = "invalid" THEN "invalid_interval"
                            ELSE IF msg_id \notin DOMAIN stored_messages THEN "not_found"
                            ELSE "no_targets")
          ELSE /\ FreeHandles # {}
               /\ LET job == NewTask(msg_id, "forward_stored_message", msg_id, TRUE, {},
                                     IntervalOf(interval))
                  IN  SetTasks(Put(Cancel(tasks, ExistingTask(msg_id)), NewHandle, job),
                               Put(forwarding_tasks, msg_id, NewHandle),
                               scheduled_tasks)
               /\ reply' = "started"
       /\ UNCHANGED <<forwarding_enabled, admins, target_chats,
                      forward_interval, stored_messages, targeted_campaigns,
                      analytics, pending_saves, restore_waiters, clear_waiters, restoring, optimizing, now>>

cmd_startad(sender, msg_id, interval) ==
    \/ Denied(sender, FALSE)
    \/ /\ admin_only(sender, FALSE) = "run"
       /\ IF IntervalCheck(interval) = "small" THEN Refuse("interval_too_small")
          ELSE IF IntervalCheck(interval) = "invalid" THEN Refuse("invalid_interval")
          ELSE IF msg_id \notin DOMAIN stored_messages THEN Refuse("not_found")
          ELSE IF target_chats = {} THEN Refuse("no_targets")
          ELSE /\ FreeHandles # {}
               /\ LET job == NewTask(msg_id, "forward_stored_message", msg_id, TRUE, {},
                                     IntervalOf(interval))
                  IN  SetTasks(Put(Cancel(tasks, ExistingTask(msg_id)), NewHandle, job),
                               Put(forwarding_tasks, msg_id, NewHandle),
                               scheduled_tasks)
               /\ reply' = "started"
               /\ UNCHANGED <<forwarding_enabled, admins, target_chats,
                              forward_interval, stored_messages, targeted_campaigns,
                              analytics, pending_saves, restore_waiters, clear_waiters, restoring, optimizing, now>>

cmd_stopad(sender, msg_id) ==
    \/ Denied(sender, FALSE)
    \/ /\ admin_only(sender, FALSE) = "run"
       /\ IF msg_id = Missing
          THEN /\ SetTasks(Cancel(tasks, NotDone(forwarding_tasks)), EmptyDict,
                           scheduled_tasks)
               /\ reply' = "stopped_all"
               /\ UNCHANGED <<forwarding_enabled, admins, target_chats,
                              forward_interval, stored_messages, targeted_campaigns,
                              analytics, pending_saves, restore_waiters, clear_waiters, restoring, optimizing, now>>
          ELSE IF msg_id \in DOMAIN forwarding_tasks
                  /\ ~Done(tasks, forwarding_tasks[msg_id])
          THEN /\ SetTasks(Cancel(tasks, {forwarding_tasks[msg_id]}),
                           Del(forwarding_tasks, msg_id), scheduled_tasks)
               /\ reply' = "stopped"
               /\ UNCHANGED <<forwarding_enabled, admins, target_chats,
                              forward_interval, stored_messages, targeted_campaigns,
                              analytics, pending_saves, restore_waiters, clear_waiters, restoring, optimizing, now>>
          ELSE Refuse("no_active_forwarding")

cmd_timer(sender, interval) ==
    \/ Denied(sender, FALSE)
    \/ /\ admin_only(sender, FALSE) = "run"
       /\ IF ~interval.given THEN Refuse("usage")
          ELSE IF IntervalCheck(interval) = "small" THEN Refuse("interval_too_small")
          ELSE IF IntervalCheck(interval) = "invalid" THEN Refuse("invalid_interval")
          ELSE /\ forward_interval' = interval.value
               /\ reply' = "timer_set"
               /\ UNCHANGED <<forwarding_enabled, admins, target_chats,
                              stored_messages, forwarding_tasks, scheduled_tasks,
                              targeted_campaigns, analytics, tasks, pending_saves,
                              restore_waiters, clear_waiters, restoring, optimizing, now>>

\* Numeric targets only resolve here: a name either fails to resolve (bad) or
\* is not in the list.
cmd_targetedad(sender, msg_id, target, interval) ==
    \/ Denied(sender, FALSE)
    \/ /\ admin_only(sender, FALSE) = "run"
       /\ IF msg_id \notin DOMAIN stored_messages THEN Refuse("not_found")
          ELSE IF target.bad THEN Refuse("could_not_resolve")
          ELSE IF target.ids = {} THEN Refuse("no_valid_targets")
          ELSE IF IntervalCheck(interval) = "small" THEN Refuse("interval_too_small")
          ELSE IF IntervalCheck(interval) = "invalid" THEN Refuse("invalid_interval")
          ELSE /\ FreeHandles # {}
               /\ \E campaign_id \in generate_campaign_id(DefaultLength) :
                    /\ targeted_campaigns' =
                           Put(targeted_campaigns, campaign_id,
                               [msg_id |-> msg_id, targets |-> target.ids,
                                interval |-> IntervalOf(interval)])
                    /\ SetTasks(Put(tasks, NewHandle,
                                    NewTask(TargetedKey(campaign_id), "forward_stored_message",
                                            msg_id, FALSE,
                                            target.ids, IntervalOf(interval))),
                                Put(forwarding_tasks, TargetedKey(campaign_id), NewHandle),
                                scheduled_tasks)
               /\ reply' = "campaign_started"
               /\ UNCHANGED <<forwarding_enabled, admins, target_chats,
                              forward_interval, stored_messages, analytics,
                              pending_saves, restore_waiters, clear_waiters, restoring, optimizing, now>>

\* a /stoptargetad that cancels the job and leaves the record for a later step
stoptargetad_cancel_only(sender, campaign_id) ==
    \/ Denied(sender, FALSE)
    \/ /\ admin_only(sender, FALSE) = "run"
       /\ IF campaign_id \notin DOMAIN targeted_campaigns THEN Refuse("not_found")
          ELSE /\ IF TargetedKey(campaign_id) \in DOMAIN forwarding_tasks
                     /\ ~Done(tasks, forwarding_tasks[TargetedKey(campaign_id)])
                  THEN SetTasks(Cancel(tasks, {forwarding_tasks[TargetedKey(campaign_id)]}),
                                Del(forwarding_tasks, TargetedKey(campaign_id)),
                                scheduled_tasks)
                  ELSE UNCHANGED <<tasks, forwarding_tasks, scheduled_tasks>>
               /\ reply' = "campaign_stopped"
               /\ UNCHANGED <<forwarding_enabled, admins, target_chats, targeted_campaigns,
                              forward_interval, stored_messages, analytics,
                              pending_saves, restore_waiters, clear_waiters, restoring, optimizing, now>>

cmd_stoptargetad(sender, campaign_id) ==
    \/ Denied(sender, FALSE)
    \/ /\ admin_only(sender, FALSE) = "run"
       /\ IF campaign_id \notin DOMAIN targeted_campaigns THEN Refuse("not_found")
          ELSE /\ IF TargetedKey(campaign_id) \in DOMAIN forwarding_tasks
                     /\ ~Done(tasks, forwarding_tasks[TargetedKey(campaign_id)])
                  THEN SetTasks(Cancel(tasks, {forwarding_tasks[TargetedKey(campaign_id)]}),
                                Del(forwarding_tasks, TargetedKey(campaign_id)),
                                scheduled_tasks)
                  ELSE UNCHANGED <<tasks, forwarding_tasks, scheduled_tasks>>
               /\ targeted_campaigns' = Del(targeted_campaigns, campaign_id)
               /\ reply' = "campaign_stopped"
               /\ UNCHANGED <<forwarding_enabled, admins, target_chats,
                              forward_interval, stored_messages, analytics,
                              pending_saves, restore_waiters, clear_waiters, restoring, optimizing, now>>

\* The <time> argument of /schedule, by the form the patterns of lines
\* 1106-1129 find in it: "<N>m" or "<N>h", "<H>:<M>", a full date and time
\* (at: its seconds since the Epoch), or something else.
Relative(value, unit) == [form |-> "relative", value |-> value, unit |-> unit]

ClockTime(hour, minute) == [form |-> "time", hour |-> hour, minute |-> minute]

DateTime(at) == [form |-> "datetime", at |-> at]

Unparsable == [form |-> "other"]

\* a parse that takes hours for minutes
ParseTimeMinutes(when) ==
    IF when.form = "relative"
    THEN [ok |-> TRUE, time |-> now + 60 * when.value]
    ELSE [ok |-> when.form = "datetime", time |-> IF when.form = "datetime" THEN when.at ELSE 0]

\* schedule_time of lines 1102-1132; ok is FALSE where the code replies
\* "Invalid time format" (strptime or now.replace raised a ValueError)
ParseTime(when) ==
    IF when.form = "relative"
    THEN [ok |-> TRUE,
          time |-> now + (IF when.unit = "m" THEN 60 ELSE 3600) * when.value]
    ELSE IF when.form = "time"
    THEN IF when.hour > 23 \/ when.minute > 59 THEN [ok |-> FALSE, time |-> 0]
         ELSE LET at == (now - (now % 86400)) + 3600 * when.hour + 60 * when.minute
              IN  [ok |-> TRUE, time |-> IF at < now THEN at + 86400 ELSE at]
    ELSE IF when.form = "datetime" THEN [ok |-> TRUE, time |-> when.at]
    ELSE [ok |-> FALSE, time |-> 0]

\* /schedule <msg_id> <time>.  The task is given self.target_chats itself,
\* not a copy.
cmd_schedule(sender, msg_id, when) ==
    \/ Denied(sender, FALSE)
    \/ /\ admin_only(sender, FALSE) = "run"
       /\ IF msg_id \notin DOMAIN stored_messages THEN Refuse("not_found")
          ELSE IF ~ParseTime(when).ok THEN Refuse("invalid_time")
          ELSE IF ParseTime(when).time < now THEN Refuse("must_be_in_future")
          ELSE /\ FreeHandles # {}
               /\ \E id \in generate_campaign_id(DefaultLength) :
                    SetTasks(Put(tasks, NewHandle,
                                 [NewTask(ScheduleKey(id), "_schedule_forward", msg_id,
                                          TRUE, {}, 0)
                                    EXCEPT !.schedule_time = ParseTime(when).time]),
                             forwarding_tasks,
                             Put(scheduled_tasks, ScheduleKey(id), NewHandle))
               /\ reply' = "scheduled"
               /\ UNCHANGED <<forwarding_enabled, admins, target_chats,
                              forward_interval, stored_messages, targeted_campaigns,
                              analytics, pending_saves, restore_waiters, clear_waiters,
                              restoring, optimizing, now>>

\* the list form of /addtarget: every numeric id is added, every name that
\* does not resolve goes to fail_list
cmd_addtarget(sender, target) ==
    \/ Denied(sender, FALSE)
    \/ /\ admin_only(sender, FALSE) = "run"
       /\ target_chats' = target_chats \cup target.ids
       /\ reply' = (IF target.bad /\ target.ids # {} THEN "added_and_failed"
                    ELSE IF target.bad THEN "failed"
                    ELSE IF target.ids # {} THEN "added"
                    ELSE "usage")
       /\ UNCHANGED <<forwarding_enabled, admins, forward_interval, stored_messages,
                      forwarding_tasks, scheduled_tasks, targeted_campaigns,
                      analytics, tasks, pending_saves, restore_waiters, clear_waiters, restoring, optimizing, now>>

\* the list form of /removetarget
cmd_removetarget(sender, target) ==
    \/ Denied(sender, FALSE)
    \/ /\ admin_only(sender, FALSE) = "run"
       /\ target_chats' = target_chats \ target.ids
       /\ reply' = (IF target.bad \/ (target.ids \ target_chats) # {}
                    THEN (IF target.ids \cap target_chats # {}
                          THEN "removed_and_not_found" ELSE "not_found")
                    ELSE IF target.ids # {} THEN "removed"
                    ELSE "usage")
       /\ UNCHANGED <<forwarding_enabled, admins, forward_interval, stored_messages,
                      forwarding_tasks, scheduled_tasks, targeted_campaigns,
                      analytics, tasks, pending_saves, restore_waiters, clear_waiters, restoring, optimizing, now>>

cmd_addadmin(sender, user) ==
    \/ Denied(sender, FALSE)
    \/ /\ admin_only(sender, FALSE) = "run"
       /\ IF ~user.resolves THEN Refuse("could_not_resolve")
          ELSE IF user.id \in admins THEN Refuse("already_admin")
          ELSE /\ admins' = admins \cup {user.id}
               /\ reply' = "admin_added"
               /\ UNCHANGED <<forwarding_enabled, target_chats, forward_interval,
                              stored_messages, forwarding_tasks, scheduled_tasks,
                              targeted_campaigns, analytics, tasks, pending_saves,
                              restore_waiters, clear_waiters, restoring, optimizing, now>>

\* the guard with "< 1" for "<= 1"
ProtectsNobody(user_id) == user_id \in ADMIN_IDS /\ Cardinality(admins) < 1

\* "if user_id in config.ADMIN_IDS and len(self.admins) <= 1"
ProtectsOriginal(user_id) == user_id \in ADMIN_IDS /\ Cardinality(admins) <= 1

cmd_removeadmin(sender, user) ==
    \/ Denied(sender, FALSE)
    \/ /\ admin_only(sender, FALSE) = "run"
       /\ IF ~user.resolves THEN Refuse("could_not_resolve")
          ELSE IF ProtectsOriginal(user.id) THEN Refuse("cannot_remove_original_admin")
          ELSE IF user.id \notin admins THEN Refuse("not_an_admin")
          ELSE /\ admins' = admins \ {user.id}
               /\ reply' = "admin_removed"
               /\ UNCHANGED <<forwarding_enabled, target_chats, forward_interval,
                              stored_messages, forwarding_tasks, scheduled_tasks,
                              targeted_campaigns, analytics, tasks, pending_saves,
                              restore_waiters, clear_waiters, restoring, optimizing, now>>

\* cmd_restore up to asyncio.create_task(wait_for_confirmation())
cmd_restore(sender, valid) ==
    \/ Denied(sender, FALSE)
    \/ /\ admin_only(sender, FALSE) = "run"
       /\ IF ~valid THEN Refuse("invalid_backup")
          ELSE /\ restore_waiters' = restore_waiters \cup {sender}
               /\ reply' = "confirm_restore"
               /\ UNCHANGED <<forwarding_enabled, admins, target_chats,
                              forward_interval, stored_messages, forwarding_tasks,
                              scheduled_tasks, targeted_campaigns, analytics, tasks,
                              pending_saves, clear_waiters, restoring, optimizing, now>>

\* backup_data['campaigns'] as a dict of campaign records
BackupCampaigns(ids) ==
    [c \in ids |-> [msg_id |-> "1", targets |-> {100}, interval |-> DefaultInterval]]

\* self.target_chats is bound to a new set: a task that was given the old
\* object, or has read it at line 159, keeps the old object; a recurring job
\* that has not started yet will read the new one
Unalias(ts) ==
    [h \in DOMAIN ts |-> IF ts[h].live /\ ~(ts[h].coro = "forward_stored_message"
                                              /\ ts[h].pc = "created")
                         THEN [ts[h] EXCEPT !.live = FALSE, !.targets = target_chats]
                         ELSE ts[h]]

\* wait_for_confirmation of cmd_restore up to the reply of the cmd_stop it
\* awaits (lines 2914-2926): sender is the sender of the /restore, backup the
\* document it replied to.  cmd_stop is called through its admin_only wrapper
\* with the /restore event.  response "error": wait_for_event raises
\* something else than TimeoutError, which ends the task.
restore_confirm(sender, response, backup) ==
    /\ sender \in restore_waiters
    /\ restore_waiters' = restore_waiters \ {sender}
    /\ IF response = "yes"
       THEN /\ IF admin_only(sender, FALSE) = "run"
               THEN StopAll /\ reply' = "shutdown"
               ELSE /\ reply' = (IF admin_only(sender, FALSE) = "offline"
                                 THEN "offline" ELSE "none")
                    /\ UNCHANGED <<forwarding_enabled, forwarding_tasks,
                                   scheduled_tasks, targeted_campaigns, tasks>>
            /\ restoring' = restoring \cup {[sender |-> sender, backup |-> backup]}
       ELSE /\ reply' = (IF response = "timeout" THEN "confirmation_timeout"
                         ELSE IF response = "error" THEN "none"
                         ELSE "restoration_cancelled")
            /\ UNCHANGED <<forwarding_enabled, forwarding_tasks, scheduled_tasks,
                           targeted_campaigns, tasks, restoring>>
    /\ UNCHANGED <<admins, target_chats, forward_interval, stored_messages,
                   analytics, pending_saves, clear_waiters, optimizing, now>>

\* "Restore data" (lines 2929-2932), when the awaited cmd_stop has returned
restore_apply(r) ==
    /\ r \in restoring
    /\ restoring' = restoring \ {r}
    /\ tasks' = Unalias(tasks)
    /\ target_chats' = r.backup.target_chats
    /\ forward_interval' = r.backup.forward_interval
    /\ admins' = r.backup.admins
    /\ targeted_campaigns' = BackupCampaigns(r.backup.campaigns)
    /\ reply' = "restored"
    /\ UNCHANGED <<forwarding_enabled, stored_messages, forwarding_tasks,
                   scheduled_tasks, analytics, pending_saves, restore_waiters,
                   clear_waiters, optimizing, now>>

\* cmd_removealltarget up to asyncio.create_task(wait_for_confirmation())
cmd_removealltarget(sender) ==
    \/ Denied(sender, FALSE)
    \/ /\ admin_only(sender, FALSE) = "run"
       /\ clear_waiters' = clear_waiters \cup {sender}
       /\ reply' = "confirm_removeall"
       /\ UNCHANGED <<forwarding_enabled, admins, target_chats, forward_interval,
                      stored_messages, forwarding_tasks, scheduled_tasks,
                      targeted_campaigns, analytics, tasks, pending_saves,
                      restore_waiters, restoring, optimizing, now>>

\* wait_for_confirmation of cmd_removealltarget (lines 1681-1698)
removealltarget_confirm(sender, response) ==
    /\ sender \in clear_waiters
    /\ clear_waiters' = clear_waiters \ {sender}
    /\ IF response = "yes"
       THEN target_chats' = {} /\ reply' = "all_removed"
       ELSE /\ reply' = (IF response = "timeout" THEN "confirmation_timeout"
                         ELSE IF response = "error" THEN "none"
                         ELSE "operation_cancelled")
            /\ UNCHANGED target_chats
    /\ UNCHANGED <<forwarding_enabled, admins, forward_interval, stored_messages,
                   forwarding_tasks, scheduled_tasks, targeted_campaigns,
                   analytics, tasks, pending_saves, restore_waiters, restoring, optimizing, now>>

(***************************************************************************)
(* The jobs: forward_stored_message and _schedule_forward.  A step runs a  *)
(* task from one await to the next.  A task that was cancelled gets the    *)
(* CancelledError at the await it is suspended in and takes no other step. *)
(***************************************************************************)
\* a job that iterates over self.target_chats whatever it was given
UseLiveTargets(t) == target_chats

\* the set object the task iterates over
UseTargets(t) == IF t.live THEN target_chats ELSE t.targets

\* "for target in use_targets" takes its first element and the task awaits
\* message.forward_to(target); an empty set ends the pass at once.  The
\* order a set is iterated in is not fixed by the program.
BeginPass(t, after) ==
    IF UseTargets(t) = {}
    THEN {[t EXCEPT !.pc = after, !.cur = 0, !.todo = {}, !.iter_len = 0]}
    ELSE {[t EXCEPT !.pc = "forwarding", !.cur = x, !.todo = UseTargets(t) \ {x},
                    !.iter_len = Cardinality(UseTargets(t))] : x \in UseTargets(t)}

\* the iterator's next element: a RuntimeError ("Set changed size during
\* iteration") if the set has another size than when the loop began
NextTarget(t, after) ==
    IF Cardinality(UseTargets(t)) # t.iter_len THEN {}
    ELSE IF t.todo \cap UseTargets(t) = {}
    THEN {[t EXCEPT !.pc = after, !.cur = 0, !.todo = {}, !.iter_len = 0]}
    ELSE {[t EXCEPT !.cur = x, !.todo = (t.todo \cap UseTargets(t)) \ {x}]
            : x \in t.todo \cap UseTargets(t)}

\* an interval that is not a number: the null of a backup file, which /restore
\* takes as it is (line 2930) and line 160 replaces by itself
NullInterval == -1

\* what a pass ends in: the sleep of the recurring job, the return of the
\* one-shot.  asyncio.sleep(use_interval) raises a TypeError when the interval
\* is not a number, and the job is in "except Exception" without having slept.
AfterPass(t) ==
    IF t.coro # "forward_stored_message" THEN "done"
    ELSE IF t.interval = NullInterval THEN "raised"
    ELSE "sleeping"

\* "except Exception" of forward_stored_message (lines 206-211): the key
\* removed is msg_id
DeregisterOnError(t) ==
    IF t.coro = "forward_stored_message" /\ t.msg_id \in DOMAIN forwarding_tasks
    THEN Del(forwarding_tasks, t.msg_id)
    ELSE forwarding_tasks

\* task h goes on as t2: finished when its pc is "done", finished through
\* "except Exception" when it is "raised"
Becomes(h, t2, ft) ==
    SetTasks(Put(tasks, h, IF t2.pc \in {"done", "raised"} THEN Finished(t2) ELSE t2),
             IF t2.pc = "raised" THEN DeregisterOnError(t2) ELSE ft,
             scheduled_tasks)

\* lines 1059-1063 of _schedule_forward: the payload is looked up (a missing
\* one is a KeyError, which "except Exception" turns into a return) and the
\* task awaits the first delivery
ScheduleDelivers(h, t) ==
    IF t.msg_id \notin DOMAIN stored_messages
    THEN Becomes(h, [t EXCEPT !.pc = "done"], forwarding_tasks)
    ELSE \E t2 \in BeginPass([t EXCEPT !.message = stored_messages[t.msg_id]], "done") :
           Becomes(h, t2, forwarding_tasks)

\* the event loop runs a new task up to its first await; _schedule_forward
\* sleeps only if wait_seconds > 0 (lines 1052-1057)
task_starts(h) ==
    /\ h \in DOMAIN tasks
    /\ tasks[h].pc = "created" /\ ~tasks[h].cancelled
    /\ LET t == tasks[h]
       IN  IF t.coro = "_schedule_forward"
           THEN IF t.schedule_time > now
                THEN Becomes(h, [t EXCEPT !.pc = "waiting"], forwarding_tasks)
                ELSE ScheduleDelivers(h, t)
           ELSE IF t.msg_id \notin DOMAIN stored_messages
           THEN Becomes(h, [t EXCEPT !.pc = "done"], forwarding_tasks)
           ELSE \E t2 \in BeginPass([t EXCEPT !.message = stored_messages[t.msg_id]],
                                    AfterPass(t)) :
                  Becomes(h, t2, forwarding_tasks)
    /\ UNCHANGED <<forwarding_enabled, admins, target_chats, forward_interval,
                   stored_messages, targeted_campaigns, analytics, pending_saves,
                   restore_waiters, clear_waiters, restoring, optimizing, now>>
    /\ reply' = "none"

\* the coroutines that record the outcome of a delivery: the recurring job
\* (lines 176-199) and /forward (lines 1245-1272); _schedule_forward does not
Records(t) == t.coro \in {"forward_stored_message", "cmd_forward"}

\* a delivery loop that a failure breaks out of: the outcome is recorded and
\* the rest of the pass is dropped
forward_returns_aborting(h, ok) ==
    /\ h \in DOMAIN tasks
    /\ tasks[h].pc = "forwarding" /\ ~tasks[h].cancelled
    /\ LET t == tasks[h]
           rest == IF ok THEN NextTarget(t, AfterPass(t))
                   ELSE {[t EXCEPT !.pc = AfterPass(t), !.cur = 0, !.todo = {}, !.iter_len = 0]}
       IN  /\ IF Records(t)
              THEN analytics' = (IF ok THEN RecordSuccess(analytics, t.msg_id, t.cur)
                                 ELSE RecordFailure(analytics, t.msg_id, t.cur, "error"))
              ELSE UNCHANGED analytics
           /\ IF rest = {}
              THEN /\ Becomes(h, [t EXCEPT !.pc = "done"], DeregisterOnError(t))
                   /\ reply' = "none"
              ELSE \E t2 \in rest :
                     /\ Becomes(h, t2, forwarding_tasks)
                     /\ reply' = (IF t.coro = "cmd_forward" /\ t2.pc = "done"
                                  THEN "forward_results" ELSE "none")
    /\ UNCHANGED <<forwarding_enabled, admins, target_chats, forward_interval,
                   stored_messages, targeted_campaigns, pending_saves,
                   restore_waiters, clear_waiters, restoring, optimizing, now>>

\* a delivery loop whose "except Exception" also takes the cancellation: the
\* cancelled job records the outcome and goes on with the pass
forward_returns_uninterrupted(h, ok) ==
    /\ h \in DOMAIN tasks
    /\ tasks[h].pc = "forwarding"
    /\ LET t == tasks[h]
       IN  /\ IF Records(t)
              THEN analytics' = (IF ok THEN RecordSuccess(analytics, t.msg_id, t.cur)
                                 ELSE RecordFailure(analytics, t.msg_id, t.cur, "error"))
              ELSE UNCHANGED analytics
           /\ IF NextTarget(t, AfterPass(t)) = {}
              THEN /\ Becomes(h, [t EXCEPT !.pc = "done"], DeregisterOnError(t))
                   /\ reply' = "none"
              ELSE \E t2 \in NextTarget(t, AfterPass(t)) :
                     /\ Becomes(h, t2, forwarding_tasks)
                     /\ reply' = (IF t.coro = "cmd_forward" /\ t2.pc = "done"
                                  THEN "forward_results" ELSE "none")
    /\ UNCHANGED <<forwarding_enabled, admins, target_chats, forward_interval,
                   stored_messages, targeted_campaigns, pending_saves,
                   restore_waiters, clear_waiters, restoring, optimizing, now>>

\* message.forward_to(target) returns (ok) or raises; the outcome is
\* recorded; then the loop takes the next target.  /forward replies its
\* results after the last target.
forward_returns(h, ok) ==
    /\ h \in DOMAIN tasks
    /\ tasks[h].pc = "forwarding" /\ ~tasks[h].cancelled
    /\ LET t == tasks[h]
       IN  /\ IF Records(t)
              THEN analytics' = (IF ok THEN RecordSuccess(analytics, t.msg_id, t.cur)
                                 ELSE RecordFailure(analytics, t.msg_id, t.cur, "error"))
              ELSE UNCHANGED analytics
           /\ IF NextTarget(t, AfterPass(t)) = {}
              THEN /\ Becomes(h, [t EXCEPT !.pc = "done"], DeregisterOnError(t))
                   /\ reply' = "none"
              ELSE \E t2 \in NextTarget(t, AfterPass(t)) :
                     /\ Becomes(h, t2, forwarding_tasks)
                     /\ reply' = (IF t.coro = "cmd_forward" /\ t2.pc = "done"
                                  THEN "forward_results" ELSE "none")
    /\ UNCHANGED <<forwarding_enabled, admins, target_chats, forward_interval,
                   stored_messages, targeted_campaigns, pending_saves,
                   restore_waiters, clear_waiters, restoring, optimizing, now>>

\* asyncio.sleep(use_interval) returns: the top of "while True"
sleep_returns(h) ==
    /\ h \in DOMAIN tasks
    /\ tasks[h].pc = "sleeping" /\ ~tasks[h].cancelled
    /\ LET t == tasks[h]
       IN  IF t.msg_id \notin DOMAIN stored_messages
           THEN Becomes(h, [t EXCEPT !.pc = "done"], forwarding_tasks)
           ELSE \E t2 \in BeginPass(t, AfterPass(t)) : Becomes(h, t2, forwarding_tasks)
    /\ UNCHANGED <<forwarding_enabled, admins, target_chats, forward_interval,
                   stored_messages, targeted_campaigns, analytics, pending_saves,
                   restore_waiters, clear_waiters, restoring, optimizing, now>>
    /\ reply' = "none"

\* asyncio.sleep(wait_seconds) of _schedule_forward returns
schedule_fires(h) ==
    /\ h \in DOMAIN tasks
    /\ tasks[h].pc = "waiting" /\ ~tasks[h].cancelled
    /\ ScheduleDelivers(h, tasks[h])
    /\ UNCHANGED <<forwarding_enabled, admins, target_chats, forward_interval,
                   stored_messages, targeted_campaigns, analytics, pending_saves,
                   restore_waiters, clear_waiters, restoring, optimizing, now>>
    /\ reply' = "none"

\* time passes: datetime.now() returns d seconds more
clock_ticks(d) ==
    /\ now' = now + d
    /\ reply' = "none"
    /\ UNCHANGED <<forwarding_enabled, admins, target_chats, forward_interval,
                   stored_messages, forwarding_tasks, scheduled_tasks,
                   targeted_campaigns, analytics, tasks, pending_saves,
                   restore_waiters, clear_waiters, restoring, optimizing>>

\* the CancelledError reaches the task: "except asyncio.CancelledError"
task_cancelled(h) ==
    /\ h \in DOMAIN tasks
    /\ tasks[h].pc # "done" /\ tasks[h].cancelled
    /\ Becomes(h, [tasks[h] EXCEPT !.pc = "done"], forwarding_tasks)
    /\ UNCHANGED <<forwarding_enabled, admins, target_chats, forward_interval,
                   stored_messages, targeted_campaigns, analytics, pending_saves,
                   restore_waiters, clear_waiters, restoring, optimizing, now>>
    /\ reply' = "none"

\* /forward <msg_id> <targets>: the handler itself delivers to each target,
\* suspended in message.forward_to like a job; it is kept with the tasks,
\* under no registry.  The step runs it up to its first delivery.
cmd_forward(sender, msg_id, target) ==
    \/ Denied(sender, FALSE)
    \/ /\ admin_only(sender, FALSE) = "run"
       /\ IF msg_id \notin DOMAIN stored_messages THEN Refuse("not_found")
          ELSE IF target.bad THEN Refuse("could_not_resolve")
          ELSE IF target.ids = {} THEN Refuse("no_valid_targets")
          ELSE /\ FreeHandles # {}
               /\ \E t2 \in BeginPass([NewTask("/forward", "cmd_forward", msg_id, FALSE,
                                                 target.ids, 0)
                                           EXCEPT !.message = stored_messages[msg_id]],
                                        "done") :
                    SetTasks(Put(tasks, NewHandle, t2), forwarding_tasks, scheduled_tasks)
               /\ reply' = "none"
               /\ UNCHANGED <<forwarding_enabled, admins, target_chats,
                              forward_interval, stored_messages, targeted_campaigns,
                              analytics, pending_saves, restore_waiters,
                              clear_waiters, restoring, optimizing, now>>

(***************************************************************************)
(* /optimize and /analytics                                                *)
(***************************************************************************)
\* (datetime.now() - timedelta(days=30)).strftime('%Y-%m-%d')
ThirtyDaysAgo == strftime(AddDays(NowDate, -30))

\* a comparison that also takes the cutoff day itself
OlderOrSame(date, cutoff) == date = cutoff \/ StrLess(date, cutoff)

\* "date < thirty_days_ago"
Older(date, cutoff) == StrLess(date, cutoff)

\* "for date in list(d.keys()): if date < thirty_days_ago: del d[date]"
PruneDict(d, cutoff) == [k \in {x \in DOMAIN d : ~Older(x, cutoff)} |-> d[k]]

\* a pruning that deletes one day at most from each dict: the oldest
PruneOldest(a, cutoff) ==
    LET Oldest(d) == {x \in DOMAIN d : /\ Older(x, cutoff)
                                        /\ \A y \in DOMAIN d : ~StrLess(y, x)}
        Drop(d)   == [k \in DOMAIN d \ Oldest(d) |-> d[k]]
    IN  [forwards |-> Drop(a.forwards), failures |-> Drop(a.failures)]

\* the cleanup of old analytics data (lines 663-671)
Prune(a, cutoff) ==
    [forwards |-> PruneDict(a.forwards, cutoff),
     failures |-> PruneDict(a.failures, cutoff)]

\* the entries of a registry whose task is not done (lines 643-649)
NotDoneEntries(reg) == [k \in {x \in DOMAIN reg : ~Done(tasks, reg[x])} |-> reg[k]]

\* lines 659-682 of cmd_optimize, which no await interrupts: the invalid
\* destinations are removed, the ledger is pruned and the result is sent.
\* set.remove of a destination that is no longer there is a KeyError: the
\* destinations before it in the list are removed, the ledger is not
\* pruned, and "except Exception" replies the error.
OptimizeEnds(o, invalid) ==
    /\ optimizing' = optimizing \ {o}
    /\ IF invalid \subseteq target_chats
       THEN /\ target_chats' = target_chats \ invalid
            /\ analytics' = Prune(analytics, ThirtyDaysAgo)
            /\ reply' = "optimization_complete"
       ELSE /\ \E removed \in SUBSET (invalid \cap target_chats) :
                 target_chats' = target_chats \ removed
            /\ UNCHANGED analytics
            /\ reply' = "error_optimizing"

\* /optimize: the progress messages (lines 634-640), between which the
\* handler is suspended in replies, edits and sleeps
cmd_optimize(sender) ==
    \/ Denied(sender, FALSE)
    \/ /\ admin_only(sender, FALSE) = "run"
       /\ optimizing' = optimizing \cup {[sender |-> sender, pc |-> "progress",
                                          checked |-> {}]}
       /\ reply' = "optimization_in_progress"
       /\ UNCHANGED <<forwarding_enabled, admins, target_chats, forward_interval,
                      stored_messages, forwarding_tasks, scheduled_tasks,
                      targeted_campaigns, analytics, tasks, pending_saves,
                      restore_waiters, clear_waiters, restoring, now>>

\* the last edit returns: the done tasks leave both registries (lines
\* 643-649) and the handler looks up each destination of
\* list(self.target_chats), suspended in client.get_entity; with no
\* destination it runs to its end
optimize_clean(o) ==
    /\ o \in optimizing /\ o.pc = "progress"
    /\ SetTasks(tasks, NotDoneEntries(forwarding_tasks), NotDoneEntries(scheduled_tasks))
    /\ IF target_chats = {}
       THEN OptimizeEnds(o, {})
       ELSE /\ optimizing' = (optimizing \ {o})
                               \cup {[o EXCEPT !.pc = "validating", !.checked = target_chats]}
            /\ reply' = "none"
            /\ UNCHANGED <<target_chats, analytics>>
    /\ UNCHANGED <<forwarding_enabled, admins, forward_interval, stored_messages,
                   targeted_campaigns, pending_saves, restore_waiters, clear_waiters,
                   restoring, now>>

\* the last get_entity returns; invalid: the destinations it raised for
optimize_validated(o, invalid) ==
    /\ o \in optimizing /\ o.pc = "validating"
    /\ invalid \subseteq o.checked
    /\ OptimizeEnds(o, invalid)
    /\ UNCHANGED <<forwarding_enabled, admins, forward_interval, stored_messages,
                   forwarding_tasks, scheduled_tasks, targeted_campaigns, tasks,
                   pending_saves, restore_waiters, clear_waiters, restoring, now>>

\* the last <days> days as date_list holds them (line 2741)
DateList(days) == {strftime(AddDays(NowDate, 0 - i)) : i \in 0..(days - 1)}

\* the forwards and the failures of one day (lines 2750-2756)
DayForwards(a, date) ==
    IF date \in DOMAIN a.forwards THEN Sum(a.forwards[date]) ELSE 0

DayFailures(a, date) ==
    IF date \in DOMAIN a.failures
    THEN Sum([k \in DOMAIN a.failures[date] |-> Len(a.failures[date][k])])
    ELSE 0

\* total_forwards and total_failures (lines 2765-2766)
TotalForwards(a, days) == Sum([d \in DateList(days) |-> DayForwards(a, d)])

TotalFailures(a, days) == Sum([d \in DateList(days) |-> DayFailures(a, d)])

\* f"{x:.1f}" of x = part / whole * 100; the division raises when whole is 0
Percent(part, whole) ==
    IF whole = 0 THEN "ZeroDivisionError"
    ELSE LET tenths == (2000 * part + whole) \div (2 * whole)
         IN  ToString(tenths \div 10) \o "." \o ToString(tenths % 10)

\* a success rate that divides whatever the totals are
SuccessRateUnguarded(forwards, failures) == Percent(forwards, forwards + failures)

\* the success rate of the summary (line 2774)
SuccessRate(forwards, failures) ==
    IF forwards + failures > 0 THEN Percent(forwards, forwards + failures) ELSE "0.0"

\* the summary of the report (lines 2769-2774)
Summary(days, forwards, failures, rate) ==
    "Last " \o ToString(days) \o " Days; Total Messages Forwarded: " \o ToString(forwards)
    \o "; Total Failures: " \o ToString(failures) \o "; Success Rate: " \o rate \o "%"

\* /analytics [days]: the report over the last days, 7 unless given
cmd_analytics(sender, arg) ==
    \/ Denied(sender, FALSE)
    \/ /\ admin_only(sender, FALSE) = "run"
       /\ LET days     == IF arg.given THEN arg.value ELSE 7
              forwards == TotalForwards(analytics, days)
              failures == TotalFailures(analytics, days)
              rate     == SuccessRate(forwards, failures)
          IN  IF arg.given /\ ~arg.valid THEN reply' = "invalid_days_value"
              ELSE IF days <= 0 \/ days > 30 THEN reply' = "days_must_be_between_1_and_30"
              ELSE IF rate = "ZeroDivisionError" THEN reply' = "error"
              ELSE reply' = Summary(days, forwards, failures, rate)
       /\ UNCHANGED stateVars

(***************************************************************************)
(* The program: commands arrive in any order from any user, and the event  *)
(* loop runs the tasks in any order.                                       *)
(***************************************************************************)
\* room for one more payload
StoreHasRoom == Cardinality(DOMAIN stored_messages) + Len(pending_saves) < MaxStored

\* room for one more confirmation
WaitersHaveRoom == Cardinality(restore_waiters) + Cardinality(restoring) < MaxWaiters

ClearersHaveRoom == Cardinality(clear_waiters) < MaxWaiters

OptimizersHaveRoom == Cardinality(optimizing) < MaxWaiters

\* /start, /stop and the commands that only reply
Lifecycle(sender) ==
    \/ cmd_start(sender)
    \/ cmd_stop(sender)

Replies(sender) ==
    \/ cmd_status(sender)
    \/ cmd_help(sender)

\* the commands on payloads, destinations and jobs, with their arguments
\* drawn from the sets of in
Campaign(sender, in) ==
    \/ StoreHasRoom /\ \E r \in in.is_reply, m \in in.messages : cmd_setad(sender, r, m)
    \/ \E id \in in.ids : cmd_removead(sender, id)
    \/ \E id \in in.ids, i \in in.intervals : cmd_startad(sender, id, i)
    \/ \E id \in in.ids \cup in.stop_ids : cmd_stopad(sender, id)
    \/ \E id \in in.ids, t \in in.lists, i \in in.intervals :
         cmd_targetedad(sender, id, t, i)
    \/ \E id \in in.campaign_ids : cmd_stoptargetad(sender, id)
    \/ \E id \in in.ids, w \in in.whens : cmd_schedule(sender, id, w)
    \/ \E t \in in.targets : cmd_addtarget(sender, t)
    \/ \E t \in in.targets : cmd_removetarget(sender, t)

\* the commands on the default interval, the admins and the backup, and the
\* one that clears the destinations on confirmation
Settings(sender, in) ==
    \/ \E i \in in.timers : cmd_timer(sender, i)
    \/ \E u \in in.users : cmd_addadmin(sender, u)
    \/ \E u \in in.users : cmd_removeadmin(sender, u)
    \/ WaitersHaveRoom /\ \E v \in in.valid : cmd_restore(sender, v)
    \/ ClearersHaveRoom /\ cmd_removealltarget(sender)

Saved(oks) == \E i \in 1..Len(pending_saves), ok \in oks : setad_store(i, ok)

Confirmed(in) ==
    \/ \E sender \in Users, r \in in.responses, b \in in.backups :
         restore_confirm(sender, r, b)
    \/ \E r \in restoring : restore_apply(r)
    \/ \E sender \in Users, r \in in.responses : removealltarget_confirm(sender, r)

\* the ledger has room for one more outcome of task h
LedgerHasRoom(h, n) ==
    /\ h \in DOMAIN tasks
    /\ Records(tasks[h]) => Outcomes(analytics) < n

Job ==
    \E h \in 1..MaxTasks :
      \/ task_starts(h)
      \/ \E ok \in BOOLEAN : LedgerHasRoom(h, MaxOutcomes) /\ forward_returns(h, ok)
      \/ sleep_returns(h)
      \/ schedule_fires(h)
      \/ task_cancelled(h)

\* The campaigns: a configured admin sends the lifecycle and campaign
\* commands with well-formed arguments, and the jobs run.
Absent == [given |-> FALSE, valid |-> TRUE, value |-> 0]

CampaignInputs ==
    [is_reply |-> {TRUE}, messages |-> {"a"}, ids |-> {"1"},
     campaign_ids |-> {"2"}, stop_ids |-> {Missing, TargetedKey("2")},
     intervals |-> {Absent, [given |-> TRUE, valid |-> TRUE, value |-> 30]},
     lists |-> {[ids |-> {100, 200}, bad |-> FALSE]},
     whens |-> {Relative(5, "m"), DateTime(-60)},
     targets |-> {[ids |-> {100}, bad |-> FALSE]}]

Next ==
    \/ \E sender \in ADMIN_IDS : Lifecycle(sender) \/ Campaign(sender, CampaignInputs)
    \/ Saved({TRUE})
    \/ Job

Spec == Init /\ [][Next]_vars

\* The admins: any user sends the lifecycle and settings commands, and the
\* confirmations of /restore arrive.
SettingsInputs ==
    [timers |-> IntervalArgs, users |-> UserArgs, valid |-> BOOLEAN,
     responses |-> {"yes", "no", "timeout", "error"}, backups |-> Backups]

AdminNext ==
    \/ \E sender \in Users :
         Lifecycle(sender) \/ Replies(sender) \/ Settings(sender, SettingsInputs)
    \/ Confirmed(SettingsInputs)

AdminSpec == Init /\ [][AdminNext]_vars

\* Every command, from any user, one argument list for each.
GateCampaignInputs ==
    [is_reply |-> {TRUE}, messages |-> {"a"}, ids |-> {"1"}, campaign_ids |-> {"2"},
     stop_ids |-> {},
     intervals |-> {Absent},
     lists |-> {[ids |-> {100}, bad |-> FALSE]},
     whens |-> {Relative(5, "m")},
     targets |-> {[ids |-> {100}, bad |-> FALSE]}]

GateSettingsInputs ==
    [timers |-> {[given |-> TRUE, valid |-> TRUE, value |-> 60]},
     users |-> {[id |-> 2, resolves |-> TRUE]}, valid |-> {TRUE},
     responses |-> {"yes"},
     backups |-> {[target_chats |-> {100}, forward_interval |-> 300,
                   admins |-> a, campaigns |-> {}] : a \in {{2}, {}}}]

GateNext ==
    \/ \E sender \in Users :
         \/ Lifecycle(sender)
         \/ Replies(sender)
         \/ Cardinality(DOMAIN tasks) < GateTasks /\ Campaign(sender, GateCampaignInputs)
         \/ Settings(sender, GateSettingsInputs)
    \/ Saved({TRUE})
    \/ Confirmed(GateSettingsInputs)
    \/ Job

GateSpec == Init /\ [][GateNext]_vars

\* The allocator: stores a run of saves and removals can leave (the first
\* k single characters without at most one of them, and any strings of the
\* fallback length, none or all but at most one of them, once every single
\* character is taken), saves that interleave, and nothing else.
Singles == Digits \o Uppercase

AllocKeys ==
    { {Singles[i] : i \in (1..k) \ {hole}} : k \in 0..Len(Singles), hole \in 0..Len(Singles) }
    \cup { {Singles[i] : i \in 1..Len(Singles)} \cup f
             : f \in {g \in SUBSET RandomStrings(DefaultLength + 1) :
                        g = {} \/ Cardinality(RandomStrings(DefaultLength + 1) \ g) <= 1} }

AllocInit ==
    /\ forwarding_enabled = TRUE
    /\ admins = ADMIN_IDS
    /\ target_chats = {}
    /\ forward_interval = DefaultInterval
    /\ stored_messages \in {[k \in keys |-> "a"] : keys \in AllocKeys}
    /\ forwarding_tasks = EmptyDict
    /\ scheduled_tasks = EmptyDict
    /\ targeted_campaigns = EmptyDict
    /\ analytics = [forwards |-> EmptyDict, failures |-> EmptyDict]
    /\ tasks = EmptyDict
    /\ pending_saves = <<>>
    /\ restore_waiters = {}
    /\ clear_waiters = {}
    /\ restoring = {}
    /\ optimizing = {}
    /\ now = 0
    /\ reply = "none"

\* the payloads the /setad calls of a run save; those of the store it starts
\* with are all "a"
NewMessages == {"b", "c"}

AllocNext ==
    \/ /\ Cardinality({k \in DOMAIN stored_messages : stored_messages[k] \in NewMessages})
            + Len(pending_saves) < MaxSaves
       /\ \E sender \in ADMIN_IDS, m \in NewMessages : cmd_setad(sender, TRUE, m)
    \/ Saved({TRUE})

AllocSpec == AllocInit /\ [][AllocNext]_vars

\* The passes: one job at a time is started over destinations that are set
\* before, and then runs alone, pass after pass, within one day.
PassInputs ==
    [is_reply |-> {TRUE}, messages |-> {"a"}, ids |-> {"1"}, campaign_ids |-> {"2"},
     stop_ids |-> {},
     intervals |-> {Absent},
     lists |-> {[ids |-> {100, 200}, bad |-> FALSE]},
     whens |-> {Relative(5, "m")},
     targets |-> {[ids |-> {100}, bad |-> FALSE], [ids |-> {200}, bad |-> FALSE]}]

PassNext ==
    \/ \E sender \in Users : cmd_start(sender)
    \/ \E sender \in ADMIN_IDS : tasks = EmptyDict /\ Campaign(sender, PassInputs)
    \/ Saved({TRUE})
    \/ \E h \in 1..MaxTasks :
         \/ task_starts(h)
         \/ \E ok \in BOOLEAN : LedgerHasRoom(h, PassOutcomes) /\ forward_returns(h, ok)
         \/ sleep_returns(h)
         \/ schedule_fires(h)

PassSpec == Init /\ [][PassNext]_vars

\* The ledger's writers: recurring jobs, targeted jobs and /forward deliver
\* the same payload to the same destination at the same time.
LedgerInputs ==
    [is_reply |-> {TRUE}, messages |-> {"a"}, ids |-> {"1"}, campaign_ids |-> {"2"},
     stop_ids |-> {},
     intervals |-> {Absent},
     lists |-> {[ids |-> {100}, bad |-> FALSE]},
     whens |-> {Relative(5, "m")},
     targets |-> {[ids |-> {100}, bad |-> FALSE]}]

LedgerNext ==
    \/ \E sender \in ADMIN_IDS :
         \/ cmd_start(sender)
         \/ Campaign(sender, LedgerInputs)
         \/ \E id \in LedgerInputs.ids, t \in LedgerInputs.targets :
              cmd_forward(sender, id, t)
    \/ Saved({TRUE})
    \/ \E h \in 1..MaxTasks :
         \/ task_starts(h)
         \/ \E ok \in BOOLEAN : LedgerHasRoom(h, LedgerOutcomes) /\ forward_returns(h, ok)
         \/ sleep_returns(h)
         \/ schedule_fires(h)
         \/ task_cancelled(h)

LedgerSpec == Init /\ [][LedgerNext]_vars

\* The history: the program has run for weeks.  The ledger holds a day's
\* bucket for some of the days in HistoryAges (days before today), today is
\* one of the days in HistoryDays (days after the Epoch), and an admin asks
\* for reports and optimizations while destinations come and go.
HistoryAges == {0, 30, 31, 45}

HistoryDays == {14, 74}

\* the ledger with one success on the days of ages fs and one failure on
\* the days of ages xs before date
Ledger(date, fs, xs) ==
    [forwards |-> [d \in {strftime(AddDays(date, 0 - n)) : n \in fs}
                     |-> [k \in {CampaignKey("1", 100)} |-> 1]],
     failures |-> [d \in {strftime(AddDays(date, 0 - n)) : n \in xs}
                     |-> [k \in {CampaignKey("1", 100)} |-> <<"error">>]]]

HistoryInit ==
    /\ forwarding_enabled = FALSE
    /\ admins = ADMIN_IDS
    /\ target_chats = {}
    /\ forward_interval = DefaultInterval
    /\ stored_messages = EmptyDict
    /\ forwarding_tasks = EmptyDict
    /\ scheduled_tasks = EmptyDict
    /\ targeted_campaigns = EmptyDict
    /\ \E day \in HistoryDays :
         /\ now = day * 86400
         /\ \E fs \in SUBSET HistoryAges, xs \in SUBSET (HistoryAges \ {45}) :
              analytics = Ledger(AddDays(Epoch, day), fs, xs)
    /\ tasks = EmptyDict
    /\ pending_saves = <<>>
    /\ restore_waiters = {}
    /\ clear_waiters = {}
    /\ restoring = {}
    /\ optimizing = {}
    /\ reply = "none"

HistoryInputs ==
    [targets |-> {[ids |-> {100}, bad |-> FALSE]},
     days |-> {Absent, [given |-> TRUE, valid |-> TRUE, value |-> 30],
               [given |-> TRUE, valid |-> TRUE, value |-> 31],
               [given |-> TRUE, valid |-> FALSE, value |-> 0]}]

HistoryNext ==
    \/ \E sender \in ADMIN_IDS :
         \/ cmd_start(sender)
         \/ \E t \in HistoryInputs.targets : cmd_addtarget(sender, t)
         \/ \E t \in HistoryInputs.targets : cmd_removetarget(sender, t)
         \/ OptimizersHaveRoom /\ cmd_optimize(sender)
         \/ \E d \in HistoryInputs.days : cmd_analytics(sender, d)
    \/ \E o \in optimizing :
         \/ optimize_clean(o)
         \/ \E invalid \in SUBSET o.checked : optimize_validated(o, invalid)

HistorySpec == HistoryInit /\ [][HistoryNext]_vars

\* The schedules: an admin schedules the payload with every form of the
\* time argument while the clock advances and destinations come and go.
ScheduleInputs ==
    [ids |-> {"1"},
     whens |-> {Relative(0, "m"), Relative(5, "m"), Relative(1, "h"), ClockTime(0, 1),
                ClockTime(24, 0), DateTime(60), Unparsable},
     targets |-> {[ids |-> {100}, bad |-> FALSE]}]

ScheduleNext ==
    \/ \E sender \in ADMIN_IDS :
         \/ Lifecycle(sender)
         \/ StoreHasRoom /\ cmd_setad(sender, TRUE, "a")
         \/ \E id \in ScheduleInputs.ids, w \in ScheduleInputs.whens :
              cmd_schedule(sender, id, w)
         \/ \E t \in ScheduleInputs.targets : cmd_addtarget(sender, t)
         \/ \E t \in ScheduleInputs.targets : cmd_removetarget(sender, t)
    \/ Saved({TRUE})
    \/ \E h \in 1..MaxTasks :
         \/ task_starts(h)
         \/ \E ok \in BOOLEAN : forward_returns(h, ok)
         \/ schedule_fires(h)
         \/ task_cancelled(h)
    \/ now + 90 <= MaxClock /\ clock_ticks(90)

ScheduleSpec == Init /\ [][ScheduleNext]_vars

\* The restores: an admin runs recurring jobs and campaigns and restores a
\* backup that holds a default interval and campaign records.
RestoreInputs ==
    [ids |-> {"1"}, campaign_ids |-> {"2"},
     stop_ids |-> {TargetedKey("2")},
     intervals |-> {Absent},
     lists |-> {[ids |-> {100}, bad |-> FALSE]},
     backups |-> {[target_chats |-> {100}, forward_interval |-> 30,
                   admins |-> ADMIN_IDS, campaigns |-> {"1"}]}]

RestoreNext ==
    \/ \E sender \in ADMIN_IDS :
         \/ Lifecycle(sender)
         \/ StoreHasRoom /\ cmd_setad(sender, TRUE, "a")
         \/ \E id \in RestoreInputs.ids, i \in RestoreInputs.intervals :
              cmd_startad(sender, id, i)
         \/ \E id \in RestoreInputs.ids, t \in RestoreInputs.lists, i \in RestoreInputs.intervals :
              cmd_targetedad(sender, id, t, i)
         \/ \E id \in RestoreInputs.stop_ids : cmd_stopad(sender, id)
         \/ \E id \in RestoreInputs.campaign_ids : cmd_stoptargetad(sender, id)
         \/ WaitersHaveRoom /\ cmd_restore(sender, TRUE)
         \/ \E b \in RestoreInputs.backups : restore_confirm(sender, "yes", b)
    \/ \E r \in restoring : restore_apply(r)
    \/ Saved({TRUE})
    \/ \E h \in 1..MaxTasks :
         \/ task_starts(h)
         \/ \E ok \in BOOLEAN : LedgerHasRoom(h, MaxOutcomes) /\ forward_returns(h, ok)
         \/ sleep_returns(h)
         \/ task_cancelled(h)

RestoreSpec == Init /\ [][RestoreNext]_vars

\* The live set: an admin runs one recurring job at a time, edits the
\* destinations and restores a backup.
LiveSetInputs ==
    [ids |-> {"1"}, intervals |-> {Absent},
     targets |-> {[ids |-> {200}, bad |-> FALSE]},
     backups |-> {[target_chats |-> {100}, forward_interval |-> DefaultInterval,
                   admins |-> ADMIN_IDS, campaigns |-> {}]}]

LiveSetNext ==
    \/ \E sender \in ADMIN_IDS :
         \/ Lifecycle(sender)
         \/ StoreHasRoom /\ cmd_setad(sender, TRUE, "a")
         \/ \E id \in LiveSetInputs.ids, i \in LiveSetInputs.intervals :
              Cardinality(DOMAIN tasks) < GateTasks /\ cmd_startad(sender, id, i)
         \/ \E t \in LiveSetInputs.targets : cmd_addtarget(sender, t)
         \/ \E t \in LiveSetInputs.targets : cmd_removetarget(sender, t)
         \/ WaitersHaveRoom /\ cmd_restore(sender, TRUE)
         \/ \E b \in LiveSetInputs.backups : restore_confirm(sender, "yes", b)
    \/ \E r \in restoring : restore_apply(r)
    \/ Saved({TRUE})
    \/ \E h \in 1..MaxTasks :
         \/ task_starts(h)
         \/ \E ok \in BOOLEAN : LedgerHasRoom(h, PassOutcomes) /\ forward_returns(h, ok)
         \/ sleep_returns(h)
         \/ task_cancelled(h)

LiveSetSpec == Init /\ [][LiveSetNext]_vars

\* The captured sets: an admin runs one targeted campaign and then edits,
\* clears and cleans the destination set.
CapturedInputs ==
    [ids |-> {"1"}, intervals |-> {Absent},
     lists |-> {[ids |-> {100, 200}, bad |-> FALSE]},
     targets |-> {[ids |-> {100, 300}, bad |-> FALSE]}]

CapturedNext ==
    \/ \E sender \in ADMIN_IDS :
         \/ cmd_start(sender)
         \/ StoreHasRoom /\ cmd_setad(sender, TRUE, "a")
         \/ \E id \in CapturedInputs.ids, t \in CapturedInputs.lists,
               i \in CapturedInputs.intervals :
              Cardinality(DOMAIN tasks) < GateTasks /\ cmd_targetedad(sender, id, t, i)
         \/ \E t \in CapturedInputs.targets : cmd_addtarget(sender, t)
         \/ \E t \in CapturedInputs.targets : cmd_removetarget(sender, t)
         \/ ClearersHaveRoom /\ cmd_removealltarget(sender)
         \/ removealltarget_confirm(sender, "yes")
         \/ OptimizersHaveRoom /\ cmd_optimize(sender)
    \/ \E o \in optimizing :
         \/ optimize_clean(o)
         \/ \E invalid \in SUBSET o.checked : optimize_validated(o, invalid)
    \/ Saved({TRUE})
    \/ \E h \in 1..MaxTasks :
         \/ task_starts(h)
         \/ \E ok \in BOOLEAN : LedgerHasRoom(h, PassOutcomes) /\ forward_returns(h, ok)
         \/ sleep_returns(h)

CapturedSpec == Init /\ [][CapturedNext]_vars

\* The deliveries: one recurring job, one campaign or one /forward at a time
\* delivers to two destinations, each delivery succeeding or failing.
DeliveryInputs ==
    [ids |-> {"1"}, intervals |-> {Absent},
     lists |-> {[ids |-> {100, 200}, bad |-> FALSE]}]

DeliveryNext ==
    \/ \E sender \in Users : cmd_start(sender)
    \/ \E sender \in ADMIN_IDS :
         \/ StoreHasRoom /\ cmd_setad(sender, TRUE, "a")
         \/ \E t \in DeliveryInputs.lists : tasks = EmptyDict /\ cmd_addtarget(sender, t)
         \/ \E id \in DeliveryInputs.ids, i \in DeliveryInputs.intervals :
              tasks = EmptyDict /\ cmd_startad(sender, id, i)
         \/ \E id \in DeliveryInputs.ids, t \in DeliveryInputs.lists,
               i \in DeliveryInputs.intervals :
              tasks = EmptyDict /\ cmd_targetedad(sender, id, t, i)
         \/ \E id \in DeliveryInputs.ids, t \in DeliveryInputs.lists :
              tasks = EmptyDict /\ cmd_forward(sender, id, t)
    \/ Saved({TRUE})
    \/ \E h \in 1..MaxTasks :
         \/ task_starts(h)
         \/ \E ok \in BOOLEAN : LedgerHasRoom(h, PassOutcomes) /\ forward_returns(h, ok)
         \/ sleep_returns(h)

DeliverySpec == Init /\ [][DeliveryNext]_vars

\* The saves: an admin starts a single campaign, removes its payload and
\* saves again while the campaign runs.  The record of the campaign stays,
\* so the first task is the only one there ever is.
ResaveInputs ==
    [ids |-> {"1"}, intervals |-> {Absent}, messages |-> {"a", "b"},
     lists |-> {[ids |-> {100}, bad |-> FALSE]}]

ResaveNext ==
    \/ \E sender \in ADMIN_IDS :
         \/ cmd_start(sender)
         \/ \E m \in ResaveInputs.messages :
              /\ stored_messages = EmptyDict /\ pending_saves = <<>>
              /\ cmd_setad(sender, TRUE, m)
         \/ \E id \in ResaveInputs.ids : cmd_removead(sender, id)
         \/ \E id \in ResaveInputs.ids, t \in ResaveInputs.lists, i \in ResaveInputs.intervals :
              targeted_campaigns = EmptyDict /\ cmd_targetedad(sender, id, t, i)
    \/ Saved({TRUE})
    \/ \E h \in 1..MaxTasks :
         \/ task_starts(h)
         \/ \E ok \in BOOLEAN : LedgerHasRoom(h, PassOutcomes) /\ forward_returns(h, ok)
         \/ sleep_returns(h)

ResaveSpec == Init /\ [][ResaveNext]_vars

\* The failures: an admin restores a backup whose default interval is null,
\* then runs the payload as a recurring job with an interval of its own and
\* as a campaign with the default one, and removes the destination.
RaiseInputs ==
    [ids |-> {"1"},
     intervals |-> {[given |-> TRUE, valid |-> TRUE, value |-> MinInterval]},
     defaults |-> {Absent},
     lists |-> {[ids |-> {100}, bad |-> FALSE]},
     backups |-> {[target_chats |-> {100}, forward_interval |-> NullInterval,
                   admins |-> ADMIN_IDS, campaigns |-> {}]}]

RaiseNext ==
    \/ \E sender \in ADMIN_IDS :
         \/ cmd_start(sender)
         \/ StoreHasRoom /\ cmd_setad(sender, TRUE, "a")
         \/ \E id \in RaiseInputs.ids, i \in RaiseInputs.intervals :
              cmd_startad(sender, id, i)
         \/ \E id \in RaiseInputs.ids, t \in RaiseInputs.lists, i \in RaiseInputs.defaults :
              cmd_targetedad(sender, id, t, i)
         \/ \E t \in RaiseInputs.lists : cmd_removetarget(sender, t)
         \/ WaitersHaveRoom /\ cmd_restore(sender, TRUE)
         \/ \E b \in RaiseInputs.backups : restore_confirm(sender, "yes", b)
    \/ \E r \in restoring : restore_apply(r)
    \/ Saved({TRUE})
    \/ \E h \in 1..MaxTasks :
         \/ task_starts(h)
         \/ \E ok \in BOOLEAN : LedgerHasRoom(h, MaxOutcomes) /\ forward_returns(h, ok)
         \/ sleep_returns(h)
         \/ task_cancelled(h)

RaiseSpec == Init /\ [][RaiseNext]_vars

\* The sets: every user adds and removes destinations and admins, present
\* or absent.
SetInputs ==
    [targets |-> {[ids |-> {100}, bad |-> FALSE], [ids |-> {100, 200}, bad |-> FALSE]},
     users |-> {[id |-> u, resolves |-> TRUE] : u \in Users}]

SetNext ==
    \E sender \in Users :
      \/ Lifecycle(sender)
      \/ \E t \in SetInputs.targets : cmd_addtarget(sender, t)
      \/ \E t \in SetInputs.targets : cmd_removetarget(sender, t)
      \/ \E u \in SetInputs.users : cmd_addadmin(sender, u)
      \/ \E u \in SetInputs.users : cmd_removeadmin(sender, u)

SetSpec == Init /\ [][SetNext]_vars

\* The batches: an admin gives /addtarget, /removetarget and /forward lists
\* in which every item resolves, or one does not.
BatchInputs ==
    [ids |-> {"1"},
     targets |-> {[ids |-> {100, 200}, bad |-> FALSE], [ids |-> {100}, bad |-> TRUE]}]

BatchNext ==
    \/ \E sender \in ADMIN_IDS :
         \/ Lifecycle(sender)
         \/ StoreHasRoom /\ cmd_setad(sender, TRUE, "a")
         \/ \E t \in BatchInputs.targets : cmd_addtarget(sender, t)
         \/ \E t \in BatchInputs.targets : cmd_removetarget(sender, t)
         \/ \E id \in BatchInputs.ids, t \in BatchInputs.targets :
              tasks = EmptyDict /\ cmd_forward(sender, id, t)
    \/ Saved({TRUE})
    \/ \E h \in 1..MaxTasks, ok \in BOOLEAN :
         LedgerHasRoom(h, PassOutcomes) /\ forward_returns(h, ok)

BatchSpec == Init /\ [][BatchNext]_vars

\* The refusals: an admin sends /startad with every kind of interval, with
\* and without the payload and the destination, while a job runs.
RejectInputs ==
    [ids |-> {"1"}, intervals |-> IntervalArgs,
     targets |-> {[ids |-> {100}, bad |-> FALSE]}]

RejectNext ==
    \/ \E sender \in ADMIN_IDS :
         \/ cmd_start(sender)
         \/ StoreHasRoom /\ cmd_setad(sender, TRUE, "a")
         \/ \E id \in RejectInputs.ids : cmd_removead(sender, id)
         \/ \E id \in RejectInputs.ids, i \in RejectInputs.intervals :
              cmd_startad(sender, id, i)
         \/ \E t \in RejectInputs.targets : cmd_addtarget(sender, t)
         \/ \E t \in RejectInputs.targets : cmd_removetarget(sender, t)
    \/ Saved({TRUE})
    \/ \E h \in 1..MaxTasks :
         \/ task_starts(h)
         \/ \E ok \in BOOLEAN : LedgerHasRoom(h, MaxOutcomes) /\ forward_returns(h, ok)
         \/ sleep_returns(h)
         \/ task_cancelled(h)

RejectSpec == Init /\ [][RejectNext]_vars

(***************************************************************************)
(* Properties                                                              *)
(***************************************************************************)
\* the live jobs created under key
LiveUnder(ts, key) == {h \in DOMAIN ts : ts[h].key = key /\ Live(ts, h)}

\* C1: when /startad X is accepted while a job that has not finished is
\* registered under X, that job is cancelled, and afterwards the job
\* registered under X is the new one and is the only live job under X.
C1_StartadReplaces ==
    [][\A sender \in ADMIN_IDS, X \in CampaignInputs.ids, i \in CampaignInputs.intervals :
         ( /\ X \in DOMAIN forwarding_tasks
           /\ ~Done(tasks, forwarding_tasks[X])
           /\ cmd_startad(sender, X, i)
           /\ reply' = "started" )
         => /\ forwarding_tasks[X] \in DOMAIN tasks'
            /\ tasks'[forwarding_tasks[X]].cancelled
            /\ forwarding_tasks'[X] # forwarding_tasks[X]
            /\ forwarding_tasks'[X] \notin DOMAIN tasks
            /\ LiveUnder(tasks', X) = {forwarding_tasks'[X]}]_vars

\* a /startad has just replaced a job: the old one is cancelled and not yet
\* finished, the new one is registered
C1_Replaced ==
    /\ reply = "started"
    /\ \E h \in DOMAIN tasks :
         /\ tasks[h].key = "1" /\ tasks[h].cancelled /\ ~Done(tasks, h)
         /\ "1" \in DOMAIN forwarding_tasks /\ forwarding_tasks["1"] # h

\* C2: every live job is the one its registry holds under its key, and no
\* two live jobs have the same key.
C2_OneJobPerKey ==
    /\ \A h \in DOMAIN tasks :
         Live(tasks, h) =>
           \/ tasks[h].key \in DOMAIN forwarding_tasks
              /\ forwarding_tasks[tasks[h].key] = h
           \/ tasks[h].key \in DOMAIN scheduled_tasks
              /\ scheduled_tasks[tasks[h].key] = h
    /\ \A h, g \in DOMAIN tasks :
         Live(tasks, h) /\ Live(tasks, g) /\ tasks[h].key = tasks[g].key => h = g

\* C3: the id /targetedad allocates is not the id of a campaign that exists,
\* and the id /schedule allocates is not the id of a schedule still pending.
C3_FreshIds ==
    [][/\ \A sender \in ADMIN_IDS, X \in CampaignInputs.ids, t \in CampaignInputs.lists,
            i \in CampaignInputs.intervals :
            cmd_targetedad(sender, X, t, i) /\ reply' = "campaign_started"
            => DOMAIN targeted_campaigns' # DOMAIN targeted_campaigns
       /\ \A sender \in ADMIN_IDS, X \in CampaignInputs.ids, w \in CampaignInputs.whens :
            cmd_schedule(sender, X, w) /\ reply' = "scheduled"
            => \A k \in DOMAIN scheduled_tasks :
                 Live(tasks, scheduled_tasks[k]) => scheduled_tasks'[k] = scheduled_tasks[k]]_vars

\* C4: a /setad never stores under an id that already holds a payload, so
\* two /setad that interleave store under two ids.
C4_SaveNeverOverwrites ==
    [][\A i \in 1..Len(pending_saves) :
         setad_store(i, TRUE) => pending_saves[i].msg_id \notin DOMAIN stored_messages]_vars

\* C5: the id generate_campaign_id returns is not a key of the store at the
\* call; it is the first digit "1".."9" not in use, or with all digits in use
\* the first letter "A".."Z" not in use, or with all of these in use a string
\* of length + 1 characters; with just the first k digits in use it is the
\* digit k + 1.
C5_OrderedFreshId ==
    [][Len(pending_saves') > Len(pending_saves) =>
         LET id == pending_saves'[Len(pending_saves')].msg_id
             used == DOMAIN stored_messages
         IN  /\ id \notin used
             /\ \/ \E i \in 1..Len(Digits) :
                     id = Digits[i] /\ \A j \in 1..(i - 1) : Digits[j] \in used
                \/ /\ \A j \in 1..Len(Digits) : Digits[j] \in used
                   /\ \E i \in 1..Len(Uppercase) :
                        id = Uppercase[i] /\ \A j \in 1..(i - 1) : Uppercase[j] \in used
                \/ /\ \A j \in 1..Len(Singles) : Singles[j] \in used
                   /\ Len(id) = DefaultLength + 1
             /\ \A k \in 0..(Len(Digits) - 1) :
                  used = {Digits[j] : j \in 1..k} => id = Digits[k + 1]]_vars

\* a /setad was given an id of the fallback length, and another the letter
\* that follows a hole-free run
C5_FallbackDrawn ==
    /\ pending_saves # <<>>
    /\ Len(pending_saves[Len(pending_saves)].msg_id) = DefaultLength + 1
    /\ pending_saves[Len(pending_saves)].msg_id \notin DOMAIN stored_messages

\* C6: generate_campaign_id can always return: some id is left for it.
C6_AlwaysReturns == generate_campaign_id(DefaultLength) # {}

\* C7: after /removead X has removed the payload, no live job forwards X.
C7_RemoveadStopsAll ==
    [][\A sender \in ADMIN_IDS, X \in CampaignInputs.ids :
         cmd_removead(sender, X) /\ reply' = "removed"
         => \A h \in DOMAIN tasks' : tasks'[h].msg_id = X => ~Live(tasks', h)]_vars

\* C8: when the admin set is {X} and X is a configured admin, /removeadmin X
\* is refused and the admin set stays as it is.
C8_SoleOriginalKept ==
    [][\A sender \in Users, X \in ADMIN_IDS :
         ( /\ admins = {X}
           /\ cmd_removeadmin(sender, [id |-> X, resolves |-> TRUE]) )
         => /\ admins' = admins
            /\ admin_only(sender, FALSE) = "run" => reply' = "cannot_remove_original_admin"]_vars

\* the refusal was just replied to the sole admin
C8_Refused ==
    /\ reply = "cannot_remove_original_admin"
    /\ admins = {1}
    /\ forwarding_enabled

\* C9: the admin set always contains every configured admin.
C9_OriginalsStay == ADMIN_IDS \subseteq admins

\* C10: while forwarding is disabled, every command but /start that an admin
\* sends is answered with the offline notice and changes nothing.
C10_DisabledRejects ==
    [][\A sender \in Users :
         ( /\ ~forwarding_enabled
           /\ sender \in admins
           /\ \/ cmd_stop(sender)
              \/ Replies(sender)
              \/ Campaign(sender, GateCampaignInputs)
              \/ Settings(sender, GateSettingsInputs) )
         => (UNCHANGED stateVars /\ reply' = "offline")]_vars

\* the offline notice was just replied while a payload, a target and a
\* second admin exist
C10_Rejected ==
    /\ ~forwarding_enabled
    /\ reply = "offline"
    /\ stored_messages # EmptyDict
    /\ target_chats # {}
    /\ admins # ADMIN_IDS

\* C11: a command, /start included, whose sender is not in the admin set
\* gets no reply and changes nothing, whether forwarding is enabled or not.
C11_StrangerDropped ==
    [][\A sender \in Users :
         ( /\ sender \notin admins
           /\ \/ Lifecycle(sender)
              \/ Replies(sender)
              \/ Campaign(sender, GateCampaignInputs)
              \/ Settings(sender, GateSettingsInputs) )
         => (UNCHANGED stateVars /\ reply' = "none")]_vars

\* a job was created and not yet run, no save is suspended, and the last
\* step replied nothing: with one job at a time that step was a dropped
\* command of user 2
C11_Dropped ==
    /\ reply = "none"
    /\ forwarding_enabled
    /\ 2 \notin admins
    /\ pending_saves = <<>>
    /\ \E h \in DOMAIN tasks : tasks[h].pc = "created" /\ ~tasks[h].cancelled

\* C12: forwarding is disabled at first; it becomes enabled only by a /start
\* of an admin, and disabled only by the global stop (the /stop of an admin,
\* or the cmd_stop that a confirmed /restore calls).
C12_Lifecycle ==
    /\ ~forwarding_enabled
    /\ [][/\ (~forwarding_enabled /\ forwarding_enabled')
             => \E sender \in admins : cmd_start(sender)
          /\ (forwarding_enabled /\ ~forwarding_enabled')
             => /\ \/ \E sender \in admins : cmd_stop(sender)
                   \/ \E sender \in admins \cap restore_waiters :
                        \E b \in GateSettingsInputs.backups :
                          restore_confirm(sender, "yes", b)
                /\ forwarding_tasks' = EmptyDict
                /\ scheduled_tasks' = EmptyDict]_vars

\* forwarding was enabled, stopped and enabled again, and user 2 is an admin
C12_Restarted ==
    /\ forwarding_enabled
    /\ reply = "welcome"
    /\ admins = {1, 2}
    /\ stored_messages # EmptyDict

\* C13: a confirmation changes shared state only if, when it is applied, its
\* sender is an admin and forwarding is enabled: a 'yes' to /removealltarget
\* empties the destinations only then, and a 'yes' to /restore gets a restore
\* under way only then.
C13_GateAtApplication ==
    [][/\ \A sender \in Users :
            removealltarget_confirm(sender, "yes") /\ target_chats' # target_chats
            => forwarding_enabled /\ sender \in admins
       /\ \A sender \in Users, b \in GateSettingsInputs.backups :
            restore_confirm(sender, "yes", b) /\ restoring' # restoring
            => forwarding_enabled /\ sender \in admins]_vars

\* C14: when /stop has run, both registries and the campaign records are
\* empty, forwarding is disabled, and every task the registries held is
\* cancelled unless it had finished before.
C14_StopClearsAll ==
    [][\A sender \in ADMIN_IDS :
         cmd_stop(sender) /\ reply' = "shutdown"
         => /\ forwarding_tasks' = EmptyDict
            /\ scheduled_tasks' = EmptyDict
            /\ targeted_campaigns' = EmptyDict
            /\ ~forwarding_enabled'
            /\ \A h \in Range(forwarding_tasks) \cup Range(scheduled_tasks) :
                 \/ Done(tasks, h)
                 \/ h \in DOMAIN tasks' /\ tasks'[h].cancelled]_vars

\* /stop has just cancelled a recurring job and a scheduled one
C14_Stopped ==
    /\ reply = "shutdown"
    /\ \E h, g \in DOMAIN tasks :
         /\ tasks[h].coro = "forward_stored_message" /\ tasks[g].coro = "_schedule_forward"
         /\ tasks[h].cancelled /\ ~Done(tasks, h)
         /\ tasks[g].cancelled /\ ~Done(tasks, g)

\* C15: /stopad X over a job registered under X that has not finished
\* cancels it and removes the key, and no live job is left under X; /stopad X
\* with no such job changes no registry, no record and no task.
C15_StopadStopsKey ==
    [][\A sender \in ADMIN_IDS,
          X \in CampaignInputs.ids \cup (CampaignInputs.stop_ids \ {Missing}) :
         cmd_stopad(sender, X) /\ admin_only(sender, FALSE) = "run"
         => IF X \in DOMAIN forwarding_tasks /\ ~Done(tasks, forwarding_tasks[X])
            THEN /\ tasks'[forwarding_tasks[X]].cancelled
                 /\ X \notin DOMAIN forwarding_tasks'
                 /\ LiveUnder(tasks', X) = {}
            ELSE UNCHANGED <<forwarding_tasks, scheduled_tasks, targeted_campaigns,
                             tasks, stored_messages>>]_vars

\* the successes and the failures the ledger holds today for a payload and
\* a destination
SuccessCount(a, msg_id, target) ==
    IF Today \in DOMAIN a.forwards /\ CampaignKey(msg_id, target) \in DOMAIN a.forwards[Today]
    THEN a.forwards[Today][CampaignKey(msg_id, target)] ELSE 0

FailureCount(a, msg_id, target) ==
    IF Today \in DOMAIN a.failures /\ CampaignKey(msg_id, target) \in DOMAIN a.failures[Today]
    THEN Len(a.failures[Today][CampaignKey(msg_id, target)]) ELSE 0

OutcomeCount(a, msg_id, target) ==
    SuccessCount(a, msg_id, target) + FailureCount(a, msg_id, target)

\* C16: a recurring job that runs alone adds one outcome per destination in
\* each pass.  Between two passes every destination of its n has the same
\* number of outcomes today and the ledger holds n times that number; within
\* a pass the destinations already served have one outcome more than those
\* still to serve.
C16_OneOutcomePerTarget ==
    \A h \in DOMAIN tasks :
      LET t == tasks[h]
          T == UseTargets(t)
      IN  tasks[h].coro = "forward_stored_message" =>
            /\ t.pc = "sleeping" =>
                 \A d \in T :
                   /\ OutcomeCount(analytics, t.msg_id, d) >= 1
                   /\ OutcomeCount(analytics, t.msg_id, d) * Cardinality(T)
                        = Outcomes(analytics)
            /\ t.pc = "forwarding" =>
                 \A d \in T :
                   OutcomeCount(analytics, t.msg_id, d)
                     = OutcomeCount(analytics, t.msg_id, t.cur)
                       + (IF d \in t.todo \cup {t.cur} THEN 0 ELSE 1)

\* two passes over two destinations are complete, with successes and failures
C16_TwoPasses ==
    \E h \in DOMAIN tasks :
      /\ tasks[h].coro = "forward_stored_message" /\ tasks[h].pc = "sleeping"
      /\ UseTargets(tasks[h]) = {100, 200}
      /\ OutcomeCount(analytics, "1", 100) = 2
      /\ OutcomeCount(analytics, "1", 200) = 2
      /\ FailureCount(analytics, "1", 100) = 1
      /\ SuccessCount(analytics, "1", 200) = 2

\* C17: no update of the ledger is lost.  No step lowers a counter of
\* today's bucket, and every delivery of a recurring job, a targeted job or
\* /forward that returns adds exactly one to the counter of its payload and
\* destination: to the successes if it succeeded, to the failures if not.
C17_NoLostUpdate ==
    [][LET today          == Today
           Bucket(dict)   == IF today \in DOMAIN dict THEN dict[today] ELSE EmptyDict
           before         == [forwards |-> Bucket(analytics.forwards),
                              failures |-> Bucket(analytics.failures)]
           after          == [forwards |-> Bucket(analytics'.forwards),
                              failures |-> Bucket(analytics'.failures)]
           Successes(b, k) == IF k \in DOMAIN b.forwards THEN b.forwards[k] ELSE 0
           Failures(b, k)  == IF k \in DOMAIN b.failures THEN Len(b.failures[k]) ELSE 0
       IN  /\ \A k \in DOMAIN before.forwards : Successes(after, k) >= Successes(before, k)
           /\ \A k \in DOMAIN before.failures : Failures(after, k) >= Failures(before, k)
           /\ \A h \in DOMAIN tasks, ok \in BOOLEAN :
                Records(tasks[h]) /\ tasks[h].pc = "forwarding" /\ forward_returns(h, ok) =>
                  LET k == CampaignKey(tasks[h].msg_id, tasks[h].cur)
                  IN  /\ Successes(after, k) = Successes(before, k) + (IF ok THEN 1 ELSE 0)
                      /\ Failures(after, k) = Failures(before, k) + (IF ok THEN 0 ELSE 1)
                      /\ Outcomes(analytics') = Outcomes(analytics) + 1]_vars

\* a job and /forward are both delivering the payload to the destination
\* whose counter already holds two successes
C17_TwoWriters ==
    \E h1, h2 \in DOMAIN tasks :
      /\ tasks[h1].coro = "forward_stored_message" /\ tasks[h2].coro = "cmd_forward"
      /\ tasks[h1].pc = "forwarding" /\ tasks[h2].pc = "forwarding"
      /\ tasks[h1].msg_id = tasks[h2].msg_id
      /\ tasks[h1].cur = 100 /\ tasks[h2].cur = 100
      /\ SuccessCount(analytics, tasks[h1].msg_id, 100) = 2

\* a step in which an /optimize runs to its end and prunes the ledger
OptimizePrunes ==
    /\ reply' = "optimization_complete"
    /\ \E o \in optimizing : o \notin optimizing'

\* C18: pruning is idempotent.  The ledger an /optimize leaves is the ledger
\* pruned once with the cutoff; pruning it again with the same cutoff leaves
\* it as it is.
C18_PruneIdempotent ==
    [][OptimizePrunes =>
         /\ analytics' = Prune(analytics, ThirtyDaysAgo)
         /\ Prune(analytics', ThirtyDaysAgo) = analytics']_vars

\* an /optimize has pruned and the ledger keeps the cutoff day and today
C18_Pruned ==
    /\ reply = "optimization_complete"
    /\ DOMAIN analytics.forwards = {ThirtyDaysAgo, Today}
    /\ DOMAIN analytics.failures = {ThirtyDaysAgo}

\* C19: pruning deletes exactly the days strictly older than today - 30
\* days, successes and failures alike.  A day n days before today is in the
\* pruned ledger exactly if it was in the ledger and n <= 30, and then with
\* the bucket it had; no other day appears.
C19_PruneExact ==
    [][OptimizePrunes =>
         \A side \in {"forwards", "failures"} :
           /\ DOMAIN analytics'[side] \subseteq DOMAIN analytics[side]
           /\ \A n \in 0..46 :
                LET date == strftime(AddDays(NowDate, 0 - n))
                IN  /\ date \in DOMAIN analytics'[side]
                         <=> (date \in DOMAIN analytics[side] /\ n <= 30)
                    /\ date \in DOMAIN analytics'[side]
                         => analytics'[side][date] = analytics[side][date]]_vars

\* an /optimize has pruned and the day before the cutoff is gone while the
\* cutoff day is kept, across the turn of a year
C19_CutoffKept ==
    /\ reply = "optimization_complete"
    /\ ThirtyDaysAgo \in DOMAIN analytics.forwards
    /\ ThirtyDaysAgo \in DOMAIN analytics.failures
    /\ NowDate.year # AddDays(NowDate, -30).year
    /\ Today \notin DOMAIN analytics.failures

\* C20: the summary of /analytics over a window without forwards and
\* failures reports the success rate 0, and the report is sent: no division
\* by zero ends the handler in its error reply.
C20_ZeroRate ==
    [][\A sender \in admins, arg \in HistoryInputs.days :
         LET days == IF arg.given THEN arg.value ELSE 7
         IN  /\ forwarding_enabled
             /\ ~arg.given \/ (arg.valid /\ 1 <= days /\ days <= 30)
             /\ \A n \in 0..(days - 1) :
                  /\ strftime(AddDays(NowDate, 0 - n)) \notin DOMAIN analytics.forwards
                  /\ strftime(AddDays(NowDate, 0 - n)) \notin DOMAIN analytics.failures
             /\ cmd_analytics(sender, arg)
             => reply' = Summary(days, 0, 0, "0.0")]_vars

\* the report of a week without outcomes, from a ledger that holds older days
C20_EmptyWeek ==
    /\ reply = Summary(7, 0, 0, "0.0")
    /\ analytics.forwards # EmptyDict
    /\ analytics.failures # EmptyDict

\* C21: a /schedule with "<N>m" accepted at time T creates a task whose fire
\* time is T + 60 * N seconds, and with "<N>h" one whose fire time is
\* T + 3600 * N seconds, registered among the scheduled tasks.
C21_RelativeFireTime ==
    [][\A sender \in ADMIN_IDS, id \in ScheduleInputs.ids,
          w \in {x \in ScheduleInputs.whens : x.form = "relative"} :
         cmd_schedule(sender, id, w) /\ reply' = "scheduled" =>
           \E h \in DOMAIN tasks' \ DOMAIN tasks :
             /\ h \in Range(scheduled_tasks')
             /\ tasks'[h].schedule_time
                  = now + (IF w.unit = "m" THEN 60 * w.value ELSE 3600 * w.value)]_vars

\* "5m" was accepted at a time T > 0 and "1h" too: the fire times are
\* T + 300 and T + 3600
C21_FiveMinutes ==
    /\ now > 0
    /\ reply = "scheduled"
    /\ \E h, g \in DOMAIN tasks :
         /\ tasks[h].coro = "_schedule_forward" /\ tasks[h].schedule_time = now + 300
         /\ tasks[g].coro = "_schedule_forward" /\ tasks[g].schedule_time = now + 3600

\* C22: a /schedule whose time cannot be parsed or whose fire time is not
\* strictly in the future (fire time <= now) is rejected and changes nothing.
C22_RejectsNotFuture ==
    [][\A sender \in ADMIN_IDS, id \in ScheduleInputs.ids, w \in ScheduleInputs.whens :
         /\ forwarding_enabled /\ id \in DOMAIN stored_messages
         /\ ~ParseTime(w).ok \/ ParseTime(w).time <= now
         /\ cmd_schedule(sender, id, w)
         => /\ reply' \in {"invalid_time", "must_be_in_future"}
            /\ UNCHANGED stateVars]_vars

\* the destinations a task delivers to when the live set is live_set
TargetsOf(t, live_set) == IF t.live THEN live_set ELSE t.targets

\* C23: from the step that accepts a /schedule until the job has fired, the
\* set of destinations the job delivers to stays what it was: no step
\* changes it while the job is pending.
C23_ScheduleSnapshot ==
    [][\A h \in DOMAIN tasks \cap DOMAIN tasks' :
         /\ tasks[h].coro = "_schedule_forward"
         /\ tasks[h].pc \in {"created", "waiting"}
         /\ tasks'[h].key = tasks[h].key /\ tasks'[h].pc # "done"
         => TargetsOf(tasks'[h], target_chats') = TargetsOf(tasks[h], target_chats)]_vars

\* C24: every recurring or targeted job is created with its payload in the
\* store, a destination set that is not empty and an interval of at least 60
\* seconds, whether the interval comes from the command or from the default.
C24_JobsStartValid ==
    [][\A h \in DOMAIN tasks' \ DOMAIN tasks :
         tasks'[h].coro = "forward_stored_message" =>
           /\ tasks'[h].msg_id \in DOMAIN stored_messages'
           /\ TargetsOf(tasks'[h], target_chats') # {}
           /\ tasks'[h].interval >= MinInterval]_vars

\* the campaign records and the live jobs registered under campaign keys
CampaignJobs(C) ==
    {h \in LiveUnder(tasks, TargetedKey(C)) :
       /\ TargetedKey(C) \in DOMAIN forwarding_tasks
       /\ forwarding_tasks[TargetedKey(C)] = h}

\* C25: every campaign record C has exactly one live job registered under
\* "targeted_" + C, and every live job created under a campaign key has its
\* record.
C25_RecordsMatchJobs ==
    /\ \A C \in DOMAIN targeted_campaigns :
         /\ Cardinality(LiveUnder(tasks, TargetedKey(C))) = 1
         /\ CampaignJobs(C) = LiveUnder(tasks, TargetedKey(C))
    /\ \A h \in DOMAIN tasks :
         Live(tasks, h) /\ tasks[h].coro = "forward_stored_message"
                        /\ tasks[h].key # tasks[h].msg_id
           => \E C \in DOMAIN targeted_campaigns : tasks[h].key = TargetedKey(C)

\* C26: an accepted /stoptargetad C is one step that both cancels the job
\* registered under "targeted_" + C and deletes the record of C: the state
\* the next command sees has the record gone and the registered job
\* cancelled, never one without the other.
C26_StopCampaignAtomic ==
    [][\A sender \in Users, C \in DOMAIN targeted_campaigns :
         admin_only(sender, FALSE) = "run" /\ cmd_stoptargetad(sender, C)
           => /\ C \notin DOMAIN targeted_campaigns'
              /\ TargetedKey(C) \in DOMAIN forwarding_tasks
                   => \/ Done(tasks, forwarding_tasks[TargetedKey(C)])
                      \/ /\ forwarding_tasks[TargetedKey(C)] \in DOMAIN tasks'
                         /\ tasks'[forwarding_tasks[TargetedKey(C)]].cancelled
                         /\ TargetedKey(C) \notin DOMAIN forwarding_tasks']_vars

\* a campaign has just been stopped while its job was on the loop
C26_CampaignStopped ==
    /\ reply = "campaign_stopped"
    /\ "2" \notin DOMAIN targeted_campaigns
    /\ \E h \in DOMAIN tasks :
         tasks[h].key = TargetedKey("2") /\ tasks[h].cancelled /\ tasks[h].pc # "done"

\* C27: the registries never hold the handle of a finished task: a recurring
\* job that ends and a scheduled job that has fired or was cancelled are
\* removed from their registry on the step that ends them.
C27_NoFinishedHandle ==
    /\ \A k \in DOMAIN forwarding_tasks : ~Done(tasks, forwarding_tasks[k])
    /\ \A k \in DOMAIN scheduled_tasks : ~Done(tasks, scheduled_tasks[k])

\* the destinations of the pass a job is in
PassSet(t) == IF t.pc = "forwarding" THEN {t.cur} \cup t.todo ELSE {}

\* a job started by /startad
StartadJob(t) == t.coro = "forward_stored_message" /\ t.key = t.msg_id

\* C28: a job started by /startad reads the destination set as it is when
\* each pass begins: the pass goes to every destination the set holds then,
\* those added since the job started included, and to none removed from it.
C28_PassReadsLiveSet ==
    [][\A h \in DOMAIN tasks :
         /\ StartadJob(tasks[h])
         /\ task_starts(h) \/ sleep_returns(h)
         /\ h \in DOMAIN tasks' /\ tasks'[h].pc # "done"
         => PassSet(tasks'[h]) = target_chats]_vars

\* a job started by /targetedad
TargetedJob(t) == t.coro = "forward_stored_message" /\ t.key # t.msg_id

\* C29: a targeted campaign delivers only to the set captured when
\* /targetedad was accepted: the job is created with the set of its record,
\* no later step changes that set, and every pass of the job goes to
\* exactly that set whatever /addtarget, /removetarget, /removealltarget and
\* the cleanup did to the destination set.
C29_CapturedSetFrozen ==
    [][/\ \A h \in DOMAIN tasks' \ DOMAIN tasks :
            TargetedJob(tasks'[h])
              => /\ ~tasks'[h].live
                 /\ \E C \in DOMAIN targeted_campaigns' :
                      /\ tasks'[h].key = TargetedKey(C)
                      /\ tasks'[h].targets = targeted_campaigns'[C].targets
       /\ \A h \in DOMAIN tasks \cap DOMAIN tasks' :
            TargetedJob(tasks[h]) /\ tasks'[h].pc # "done"
              => /\ ~tasks'[h].live
                 /\ tasks'[h].targets = tasks[h].targets
                 /\ PassSet(tasks'[h]) \subseteq tasks[h].targets
                 /\ task_starts(h) \/ sleep_returns(h)
                      => PassSet(tasks'[h]) = tasks[h].targets
       /\ \A C \in DOMAIN targeted_campaigns \cap DOMAIN targeted_campaigns' :
            targeted_campaigns'[C].targets = targeted_campaigns[C].targets]_vars

\* a campaign is in a later pass while the destination set holds something else
C29_OtherDestinations ==
    \E h \in DOMAIN tasks :
      /\ TargetedJob(tasks[h])
      /\ tasks[h].pc = "forwarding"
      /\ PassSet(tasks[h]) = {100, 200}
      /\ target_chats = {300}
      /\ Outcomes(analytics) >= 2

\* C30: within one pass of a job started by /startad the destinations
\* attempted are those the set held when the pass began: when a delivery
\* returns, the job goes on with the destinations the pass had left, and a
\* destination added or removed while the job was suspended in the delivery
\* neither changes them nor ends the job.
C30_PassIsStable ==
    [][\A h \in DOMAIN tasks :
         /\ StartadJob(tasks[h])
         /\ tasks[h].pc = "forwarding" /\ ~tasks[h].cancelled
         /\ \E ok \in BOOLEAN : forward_returns(h, ok)
         => /\ h \in DOMAIN tasks'
            /\ tasks'[h].pc # "done"
            /\ PassSet(tasks'[h]) = tasks[h].todo]_vars

\* C31: a delivery that fails is recorded as a failure reason under today's
\* bucket for (payload, destination) and does not end the pass: the job, or
\* the /forward, goes on with every destination the pass had left.
C31_FailureKeepsPass ==
    [][\A h \in DOMAIN tasks :
         /\ tasks[h].coro \in {"forward_stored_message", "cmd_forward"}
         /\ tasks[h].pc = "forwarding"
         /\ forward_returns(h, FALSE)
         => /\ FailureCount(analytics', tasks[h].msg_id, tasks[h].cur)
                 = FailureCount(analytics, tasks[h].msg_id, tasks[h].cur) + 1
            /\ analytics'.forwards = analytics.forwards
            /\ tasks[h].todo # {}
                 => /\ h \in DOMAIN tasks'
                    /\ PassSet(tasks'[h]) = tasks[h].todo]_vars

\* a /forward is delivering to its second destination after the delivery to
\* the first one failed
C31_SecondAfterFailure ==
    \E h \in DOMAIN tasks :
      /\ tasks[h].coro = "cmd_forward"
      /\ tasks[h].pc = "forwarding" /\ tasks[h].todo = {}
      /\ \E x \in {100, 200} \ {tasks[h].cur} :
           FailureCount(analytics, tasks[h].msg_id, x) = Outcomes(analytics)
      /\ Outcomes(analytics) = 1

\* the only job of the run is about to begin a pass and its payload id is
\* not in the store
\* the job of handle h wakes up from its sleep and begins a pass
WakesToDeliver(h) ==
    /\ h \in DOMAIN tasks /\ h \in DOMAIN tasks'
    /\ tasks[h].coro = "forward_stored_message"
    /\ tasks[h].pc = "sleeping"
    /\ tasks'[h].pc = "forwarding"

\* C32: a job whose payload has left the store delivers nothing from then
\* on, also when a payload is saved under the same id before the job looks
\* at the store again: a job that begins a further pass finds under its id
\* the payload it was started with, which a removal and a new save (the only
\* way the store changes here) would have replaced.
C32_RemovedNeverDelivers ==
    [][\A h \in 1..MaxTasks :
         WakesToDeliver(h) => stored_messages[tasks[h].msg_id] = tasks[h].message]_vars

\* C33: a job that has been cancelled takes no step but its end: it begins
\* no delivery and writes nothing to the ledger, whether it was cancelled in
\* its sleep or inside a delivery.
C33_CancelledIsSilent ==
    [][\A h \in DOMAIN tasks :
         tasks[h].cancelled /\ tasks[h].pc # "done"
           => /\ h \in DOMAIN tasks' => tasks'[h] = tasks[h] \/ tasks'[h].pc = "done"
              /\ h \notin DOMAIN tasks' \/ tasks'[h].pc = "done" => analytics' = analytics
              /\ \A ok \in BOOLEAN : ~forward_returns(h, ok)]_vars

\* a campaign was cancelled inside the first delivery of a pass over two
\* destinations
C33_CancelledInDelivery ==
    \E h \in DOMAIN tasks :
      /\ tasks[h].cancelled
      /\ tasks[h].pc = "forwarding"
      /\ tasks[h].todo # {}

\* a job created by /schedule
ScheduledJob(t) == t.coro = "_schedule_forward"

\* C34: every delivery of a scheduled job that has fired is recorded under
\* today's bucket for (payload, destination), as a success or as a failure
\* reason, and after the last destination the job ends: it has no second pass.
C34_ScheduleRecords ==
    [][\A h \in DOMAIN tasks, ok \in BOOLEAN :
         /\ ScheduledJob(tasks[h])
         /\ tasks[h].pc = "forwarding"
         /\ forward_returns(h, ok)
         => /\ OutcomeCount(analytics', tasks[h].msg_id, tasks[h].cur)
                 = OutcomeCount(analytics, tasks[h].msg_id, tasks[h].cur) + 1
            /\ tasks[h].todo = {} /\ h \in DOMAIN tasks' => tasks'[h].pc = "done"]_vars

\* a step of job h itself
JobStep(h) ==
    \/ task_starts(h)
    \/ sleep_returns(h)
    \/ \E ok \in BOOLEAN : forward_returns(h, ok)

\* job h ends in this step and neither a cancellation nor a missing payload
\* ends it: an exception has reached "except Exception"
JobFails(h) ==
    /\ h \in DOMAIN tasks
    /\ tasks[h].coro = "forward_stored_message"
    /\ tasks[h].pc # "done" /\ ~tasks[h].cancelled
    /\ tasks[h].pc = "forwarding" \/ tasks[h].msg_id \in DOMAIN stored_messages
    /\ JobStep(h)
    /\ h \in DOMAIN tasks' => tasks'[h].pc = "done"

\* C35: when a job fails unexpectedly, the step ends that job alone and
\* removes its key alone: every other job is as before and is registered as
\* before, and the failed job is in the registry no more.
C35_FailureIsLocal ==
    [][\A h \in DOMAIN tasks :
         JobFails(h)
           => /\ \A g \in DOMAIN tasks \ {h} : g \in DOMAIN tasks' /\ tasks'[g] = tasks[g]
              /\ \A k \in DOMAIN forwarding_tasks :
                   forwarding_tasks[k] # h
                     => k \in DOMAIN forwarding_tasks'
                        /\ forwarding_tasks'[k] = forwarding_tasks[k]
              /\ \A k \in DOMAIN forwarding_tasks' : forwarding_tasks'[k] # h]_vars

\* C36: the set mutations are idempotent.  Adding destinations or an admin
\* already present changes no state; removing destinations or an admin that
\* are absent is reported as not found and changes no state; and what an
\* accepted add (remove) leaves behind is a state in which the same add
\* (remove) finds everything present (absent).
C36_SetsIdempotent ==
    [][\A sender \in Users :
         admin_only(sender, FALSE) = "run"
           => /\ \A t \in SetInputs.targets :
                   /\ cmd_addtarget(sender, t)
                        => /\ t.ids \subseteq target_chats'
                           /\ t.ids \subseteq target_chats => UNCHANGED stateVars
                   /\ cmd_removetarget(sender, t)
                        => /\ t.ids \cap target_chats' = {}
                           /\ t.ids \cap target_chats = {}
                                => reply' = "not_found" /\ UNCHANGED stateVars
              /\ \A u \in SetInputs.users :
                   /\ cmd_addadmin(sender, u)
                        => /\ u.id \in admins'
                           /\ u.id \in admins => UNCHANGED stateVars
                   /\ cmd_removeadmin(sender, u) /\ u.id \notin admins
                        => reply' = "not_an_admin" /\ UNCHANGED stateVars]_vars

\* C37: in a batch with an item that cannot be resolved, the other items are
\* processed all the same: /addtarget adds them, /removetarget removes them,
\* and /forward delivers to them.
C37_BatchGoesOn ==
    [][\A sender \in ADMIN_IDS, t \in BatchInputs.targets :
         admin_only(sender, FALSE) = "run" /\ t.bad
           => /\ cmd_addtarget(sender, t) => t.ids \subseteq target_chats'
              /\ cmd_removetarget(sender, t) => t.ids \cap target_chats' = {}
              /\ \A id \in DOMAIN stored_messages :
                   tasks = EmptyDict /\ cmd_forward(sender, id, t)
                     => \E h \in DOMAIN tasks' :
                          /\ tasks'[h].coro = "cmd_forward"
                          /\ PassSet(tasks'[h]) = t.ids]_vars

\* job h calls message.forward_to in this step
AttemptBegins(h) ==
    /\ h \in DOMAIN tasks /\ h \in DOMAIN tasks'
    /\ tasks[h].coro \in {"forward_stored_message", "_schedule_forward"}
    /\ tasks'[h].pc = "forwarding"
    /\ tasks[h].pc # "forwarding" \/ tasks'[h].cur # tasks[h].cur

\* C38: while forwarding is disabled no job begins a delivery: from /stop
\* to the next /start no recurring, targeted or scheduled job calls the
\* transport.
C38_SilentWhileDisabled ==
    [][~forwarding_enabled => \A h \in DOMAIN tasks : ~AttemptBegins(h)]_vars

\* the conditions /startad refuses on
Rejected(msg_id, interval) ==
    \/ IntervalCheck(interval) # "ok"
    \/ msg_id \notin DOMAIN stored_messages
    \/ target_chats = {}

\* C39: a /startad X that is refused (interval below 60 or not an integer,
\* payload not found, no destination) changes no state: the task running
\* under X is not cancelled and stays registered.
C39_RefusedChangesNothing ==
    [][\A sender \in ADMIN_IDS, id \in RejectInputs.ids, i \in RejectInputs.intervals :
         /\ admin_only(sender, FALSE) = "run"
         /\ Rejected(id, i)
         /\ cmd_startad(sender, id, i)
         => /\ UNCHANGED stateVars
            /\ reply' \in {"interval_too_small", "invalid_interval", "not_found",
                           "no_targets"}]_vars

\* a /startad was refused for want of a destination while the job of the
\* payload is running
C39_RefusedWhileRunning ==
    /\ reply = "no_targets"
    /\ "1" \in DOMAIN forwarding_tasks
    /\ Live(tasks, forwarding_tasks["1"])

\* C40: the validation step of /optimize completes and removes exactly the
\* destinations it found invalid, and prunes the ledger, also when another
\* command removed destinations while the validation was suspended.
C40_CleanupCompletes ==
    [][\A o \in optimizing : \A invalid \in SUBSET o.checked :
         optimize_validated(o, invalid)
         => /\ target_chats' = target_chats \ invalid
            /\ analytics' = Prune(analytics, ThirtyDaysAgo)
            /\ reply' = "optimization_complete"]_vars

====
